--------------------------- MODULE Monitor_proofs ---------------------------
(***************************************************************************)
(* The invariants of Monitor, for every set of channels and pins.          *)
(***************************************************************************)
EXTENDS Monitor, TLAPS

-----------------------------------------------------------------------------
(* The converter.  A core between selection and release holds the lock,    *)
(* and holds it alone; a reading that the oscilloscope did not cut into    *)
(* never sees it running, so that its selection took effect.               *)
Holding(c) == reader[c].at \in {"select", "convert", "free"}

LockInv  == /\ \A c \in Cores : Holding(c) => busy
            /\ ~(Holding(0) /\ Holding(1))
ScopeInv == \A c \in Cores : ~Idle(c) /\ ~reader[c].spoilt => ~scope_running

ConverterInv == ConverterTypeOK /\ LockInv /\ ScopeInv /\ ReadsOwnChannel

(* What the steps of Monitor do to the converter.                          *)
AllIdle ==
    /\ busy' = FALSE /\ input' = "mux" /\ channel' = Ground
    /\ reader' = [c \in Cores |-> NotReading] /\ scope_running' = FALSE

ConverterNext ==
    \/ \E c \in Cores : \E todo \in SUBSET Sweep : Read(c, todo)
    \/ \E c \in Cores : Reading(c)
    \/ ScopeSelect \/ ScopeStart \/ ScopeStop \/ AllIdle

Readers == [at : {"idle", "wait", "select", "convert", "free"}, todo : SUBSET Sweep,
            on : Sweep \cup {Ground}, spoilt : BOOLEAN]

LEMMA SweepFacts ==
    /\ Current \in Sweep /\ Channels \subseteq Sweep /\ "io" \in Channels /\ "fuse" \in Channels
    /\ Current \notin Channels /\ Ground \notin Channels /\ Current # Ground
    /\ Current # "mux"
  BY ConverterAssumption DEF Sweep, Current, Ground

(* One core's record is replaced by another one.                           *)
LEMMA ReaderChanges ==
    ASSUME reader \in [Cores -> Readers], NEW c \in Cores, NEW r \in Readers
    PROVE  [reader EXCEPT ![c] = r] \in [Cores -> Readers]
  OBVIOUS

LEMMA ConverterTypeStep ==
    ASSUME ConverterTypeOK, [ConverterNext]_converter
    PROVE  ConverterTypeOK'
<1> USE SweepFacts
<1>0. reader \in [Cores -> Readers]  BY DEF ConverterTypeOK, Readers
<1> SUFFICES /\ busy' \in BOOLEAN /\ scope_running' \in BOOLEAN
             /\ input' \in {"mux", Current} /\ channel' \in Channels \cup {Ground}
             /\ reader' \in [Cores -> Readers]
  BY DEF ConverterTypeOK, Readers
<1> USE DEF ConverterTypeOK
<1>1. ASSUME NEW c \in Cores, NEW todo \in SUBSET Sweep, Read(c, todo)
      PROVE  UNCHANGED <<busy, input, channel, scope_running>> /\ reader' \in [Cores -> Readers]
  BY <1>0, <1>1 DEF Read, NotReading, Readers
<1>2. ASSUME NEW c \in Cores, Acquire(c)
      PROVE  /\ busy' = TRUE /\ UNCHANGED <<input, channel, scope_running>>
             /\ reader' \in [Cores -> Readers]
  BY <1>0, <1>2 DEF Acquire, Readers
<1>3. ASSUME NEW c \in Cores, Select(c)
      PROVE  /\ UNCHANGED <<busy, scope_running>> /\ reader' \in [Cores -> Readers]
             /\ input' \in {"mux", Current} /\ channel' \in Channels \cup {Ground}
  <2> PICK what \in reader[c].todo :
          /\ input' = IF what = Current THEN Current ELSE "mux"
          /\ channel' = IF scope_running THEN channel
                        ELSE IF what = Current THEN Ground ELSE what
          /\ reader' = [reader EXCEPT ![c].at = "convert", ![c].on = what]
    BY <1>3 DEF Select
  <2> DEFINE r == [reader[c] EXCEPT !.at = "convert", !.on = what]
  <2>0. reader[c] \in Readers  BY <1>0
  <2>1. what \in Sweep  BY <2>0 DEF Readers
  <2>2. what = Current \/ what \in Channels  BY <2>1 DEF Sweep
  <2>3. r \in Readers  BY <2>0, <2>1 DEF Readers
  <2>4. reader' = [reader EXCEPT ![c] = r]  BY <1>0
  <2>5. reader' \in [Cores -> Readers]  BY <1>0, <2>3, <2>4, ReaderChanges
  <2>6. input' \in {"mux", Current} /\ channel' \in Channels \cup {Ground}  BY <2>2
  <2> QED  BY <1>3, <2>5, <2>6 DEF Select
<1>4. ASSUME NEW c \in Cores, Convert(c)
      PROVE  UNCHANGED <<busy, input, channel, scope_running>> /\ reader' \in [Cores -> Readers]
  <2> DEFINE left == reader[c].todo \ {reader[c].on}
             at   == IF left = {} THEN "free" ELSE "select"
             r    == [reader[c] EXCEPT !.todo = left, !.at = at]
  <2>0. reader[c] \in Readers  BY <1>0
  <2>1. reader' = [reader EXCEPT ![c] = r]  BY <1>0, <1>4 DEF Convert
  <2>2. left \in SUBSET Sweep /\ at \in {"select", "free"}  BY <2>0 DEF Readers
  <2> HIDE DEF left, at
  <2>3. r \in Readers  BY <2>0, <2>2 DEF Readers
  <2>4. reader' \in [Cores -> Readers]  BY <1>0, <2>1, <2>3, ReaderChanges
  <2> QED  BY <1>4, <2>4 DEF Convert
<1>5. ASSUME NEW c \in Cores, Release(c)
      PROVE  /\ busy' = FALSE /\ UNCHANGED <<input, channel, scope_running>>
             /\ reader' \in [Cores -> Readers]
  BY <1>0, <1>5 DEF Release, NotReading, Readers
<1>6. ASSUME CutIn PROVE reader' \in [Cores -> Readers]
  <2>1. ASSUME NEW c \in Cores PROVE [reader[c] EXCEPT !.spoilt = ~Idle(c)] \in Readers
    <3>1. reader[c] \in Readers /\ (~Idle(c)) \in BOOLEAN  BY <1>0 DEF Idle
    <3> QED  BY <3>1 DEF Readers
  <2> QED  BY <1>6, <2>1 DEF CutIn
<1>7. CASE ScopeSelect \/ ScopeStart  BY <1>6, <1>7 DEF ScopeSelect, ScopeStart
<1>8. CASE ScopeStop  BY <1>0, <1>8 DEF ScopeStop
<1>9. CASE AllIdle  BY <1>9 DEF AllIdle, NotReading, Readers
<1>10. CASE UNCHANGED converter  BY <1>0, <1>10 DEF converter
<1> QED
  BY <1>0, <1>1, <1>2, <1>3, <1>4, <1>5, <1>7, <1>8, <1>9, <1>10 DEF ConverterNext, Reading

(* The other core keeps its record, and a reading begins without the scope. *)
LEMMA ConverterStep ==
    ASSUME ConverterInv, [ConverterNext]_converter
    PROVE  ConverterInv'
<1> USE SweepFacts DEF Holding, Idle, Cores
<1>0. /\ ConverterTypeOK /\ ConverterTypeOK' /\ LockInv /\ ScopeInv /\ ReadsOwnChannel
      /\ reader \in [Cores -> Readers]
  BY ConverterTypeStep DEF ConverterInv, ConverterTypeOK, Readers
<1> SUFFICES LockInv' /\ ScopeInv' /\ ReadsOwnChannel'
  BY <1>0 DEF ConverterInv
<1>1. ASSUME NEW c \in Cores, NEW todo \in SUBSET Sweep, Read(c, todo)
      PROVE  LockInv' /\ ScopeInv' /\ ReadsOwnChannel'
  <2>1. /\ reader'[c].at = "wait" /\ ~reader'[c].spoilt /\ ~scope_running
        /\ \A d \in Cores \ {c} : reader'[d] = reader[d]
        /\ UNCHANGED <<busy, input, channel, scope_running>>
    BY <1>0, <1>1 DEF Read, NotReading
  <2> QED  BY <1>0, <2>1 DEF LockInv, ScopeInv, ReadsOwnChannel, Connected
<1>2. ASSUME NEW c \in Cores, Acquire(c)
      PROVE  LockInv' /\ ScopeInv' /\ ReadsOwnChannel'
  <2>1. /\ reader[c].at = "wait" /\ reader'[c].at = "select" /\ reader'[c].spoilt = reader[c].spoilt
        /\ \A d \in Cores \ {c} : reader'[d] = reader[d]
        /\ ~busy /\ busy' /\ UNCHANGED <<input, channel, scope_running>>
    BY <1>0, <1>2 DEF Acquire, Free, Readers
  <2> QED  BY <1>0, <2>1 DEF LockInv, ScopeInv, ReadsOwnChannel, Connected
<1>3. ASSUME NEW c \in Cores, Select(c)
      PROVE  LockInv' /\ ScopeInv' /\ ReadsOwnChannel'
  <2> PICK what \in reader[c].todo :
          /\ input' = IF what = Current THEN Current ELSE "mux"
          /\ channel' = IF scope_running THEN channel
                        ELSE IF what = Current THEN Ground ELSE what
          /\ reader' = [reader EXCEPT ![c].at = "convert", ![c].on = what]
    BY <1>3 DEF Select
  <2>1. /\ reader[c].at = "select" /\ reader'[c].at = "convert" /\ reader'[c].on = what
        /\ reader'[c].spoilt = reader[c].spoilt
        /\ \A d \in Cores \ {c} : reader'[d] = reader[d]
        /\ UNCHANGED <<busy, scope_running>>
    BY <1>0, <1>3 DEF Select, Readers
  <2>2. LockInv' /\ ScopeInv'  BY <1>0, <2>1 DEF LockInv, ScopeInv
  <2>3. \A d \in Cores \ {c} : reader'[d].at # "convert"  BY <1>0, <2>1 DEF LockInv
  <2>4. ~reader'[c].spoilt => Connected' = what  BY <1>0, <2>1 DEF ScopeInv, Connected
  <2> QED  BY <2>1, <2>2, <2>3, <2>4 DEF ReadsOwnChannel
<1>4. ASSUME NEW c \in Cores, Convert(c)
      PROVE  LockInv' /\ ScopeInv' /\ ReadsOwnChannel'
  <2>1. /\ reader[c].at = "convert" /\ reader'[c].at \in {"free", "select"}
        /\ reader'[c].spoilt = reader[c].spoilt
        /\ \A d \in Cores \ {c} : reader'[d] = reader[d]
        /\ UNCHANGED <<busy, input, channel, scope_running>>
    BY <1>0, <1>4 DEF Convert, Readers
  <2> QED  BY <1>0, <2>1 DEF LockInv, ScopeInv, ReadsOwnChannel, Connected
<1>5. ASSUME NEW c \in Cores, Release(c)
      PROVE  LockInv' /\ ScopeInv' /\ ReadsOwnChannel'
  <2>1. /\ reader[c].at = "free" /\ reader'[c].at = "idle"
        /\ \A d \in Cores \ {c} : reader'[d] = reader[d]
        /\ UNCHANGED <<input, channel, scope_running>>
    BY <1>0, <1>5 DEF Release, NotReading
  <2> QED  BY <1>0, <2>1 DEF LockInv, ScopeInv, ReadsOwnChannel, Connected
<1>6. CASE ScopeSelect \/ ScopeStart
  <2>1. /\ \A c \in Cores : /\ reader'[c].at = reader[c].at
                            /\ reader[c].at # "idle" => reader'[c].spoilt
        /\ UNCHANGED busy
    <3>1. ASSUME NEW c \in Cores
          PROVE  reader'[c].at = reader[c].at /\ (reader[c].at # "idle" => reader'[c].spoilt)
      <4>1. reader[c] \in Readers  BY <1>0
      <4>2. reader'[c] = [reader[c] EXCEPT !.spoilt = (reader[c].at # "idle")]
        BY <1>0, <1>6 DEF ScopeSelect, ScopeStart, CutIn
      <4>3. CASE reader[c].at # "idle"
        <5>1. (reader[c].at # "idle") = TRUE  BY <4>3
        <5>2. reader'[c] = [reader[c] EXCEPT !.spoilt = TRUE]  BY <4>2, <5>1, Zenon
        <5> QED  BY <4>1, <5>2 DEF Readers
      <4>4. CASE reader[c].at = "idle"
        BY <4>1, <4>2, <4>4 DEF Readers
      <4> QED  BY <4>3, <4>4
    <3>2. UNCHANGED busy  BY <1>6 DEF ScopeSelect, ScopeStart
    <3> QED  BY <3>1, <3>2
  <2> QED  BY <1>0, <2>1 DEF LockInv, ScopeInv, ReadsOwnChannel
<1>7. CASE ScopeStop
  BY <1>0, <1>7 DEF ScopeStop, LockInv, ScopeInv, ReadsOwnChannel, Connected
<1>8. CASE AllIdle
  BY <1>8 DEF AllIdle, NotReading, LockInv, ScopeInv, ReadsOwnChannel
<1>9. CASE UNCHANGED converter
  BY <1>0, <1>9 DEF converter, LockInv, ScopeInv, ReadsOwnChannel, Connected
<1> QED
  BY <1>1, <1>2, <1>3, <1>4, <1>5, <1>6, <1>7, <1>8, <1>9 DEF ConverterNext, Reading

(* Every step of Monitor is a step of the converter, or none.              *)
LEMMA UsesConverter ==
    ASSUME [Next]_vars
    PROVE  [ConverterNext]_converter
<1> USE SweepFacts
<1>1. {"io"} \in SUBSET Sweep /\ {Current} \in SUBSET Sweep /\ {"fuse"} \in SUBSET Sweep
  OBVIOUS
<1>2. ASSUME NEW c \in Cores, NEW todo \in SUBSET Sweep, Read(c, todo) PROVE ConverterNext
  BY <1>2 DEF ConverterNext
<1>3. 0 \in Cores /\ 1 \in Cores  BY DEF Cores
<1>4. CASE (\E p \in Pins : Announce(p)) \/ (\E p, q \in Pins : AnnounceBoth(p, q))
  BY <1>4 DEF Announce, AnnounceBoth
<1>5. CASE StartProgram \/ Program \/ EndProgram \/ StartLegacy \/ EndLegacy
  BY <1>5 DEF StartProgram, Program, EndProgram, StartLegacy, EndLegacy
<1>6. CASE Restart  BY <1>6 DEF Restart, ConverterNext, AllIdle
<1>7. CASE (\E d \in {"default", "scope"} : SelectDisplay(d)) \/ ForceUpdate \/ Resume
  BY <1>7 DEF SelectDisplay, ForceUpdate, Resume
<1>8. CASE ReadAdc  BY <1>1, <1>2, <1>3, <1>8 DEF ReadAdc
<1>9. CASE ScreensaverStarts \/ Repaint \/ Woken
  BY <1>9 DEF ScreensaverStarts, Repaint, Woken
<1>10. CASE Wake  BY <1>2, <1>3, <1>10 DEF Wake
<1>11. CASE TimerExpires \/ TimerCallback  BY <1>11 DEF TimerExpires, TimerCallback
<1>12. CASE Poll  BY <1>1, <1>2, <1>3, <1>12 DEF Poll
<1>13. CASE Update  BY <1>2, <1>3, <1>13 DEF Update
<1>14. CASE EndOfReading \/ Collect \/ Paint \/ Reset \/ Disable \/ Enable
  BY <1>14 DEF EndOfReading, Collect, Paint, Reset, Disable, Enable
<1>15. CASE ScopeSelects \/ ScopeStarts \/ ScopeStops
  BY <1>15 DEF ScopeSelects, ScopeStarts, ScopeStops, ConverterNext
<1>16. CASE ScopeSweeps  BY <1>2, <1>3, <1>16 DEF ScopeSweeps
<1>17. CASE Reads  BY <1>17 DEF Reads, ConverterNext
<1>18. CASE UNCHANGED vars  BY <1>18 DEF vars, converter
<1> QED
  BY <1>4, <1>5, <1>6, <1>7, <1>8, <1>9, <1>10, <1>11, <1>12, <1>13, <1>14, <1>15, <1>16,
     <1>17, <1>18 DEF Next

LEMMA InitConverterInv == Init => ConverterInv
<1> SUFFICES ASSUME InitConverter PROVE ConverterInv  BY DEF Init
<1> USE SweepFacts DEF InitConverter, NotReading
<1>1. ConverterTypeOK  BY DEF ConverterTypeOK
<1> QED  BY <1>1 DEF ConverterInv, LockInv, ScopeInv, ReadsOwnChannel, Holding, Idle, Cores

(* A core converts what it has selected, whatever the other core, messages *)
(* and the screensaver do, unless the oscilloscope cuts in: as in run      *)
(* monitor, for every set of channels and pins.                            *)
THEOREM ConvertsWhatItSelected == Spec => []ReadsOwnChannel
<1>1. ConverterInv /\ [Next]_vars => ConverterInv'  BY UsesConverter, ConverterStep
<1>2. ConverterInv => ReadsOwnChannel  BY DEF ConverterInv
<1> QED  BY InitConverterInv, <1>1, <1>2, PTL DEF Spec

-----------------------------------------------------------------------------
(* The messages and the timer.  A message in flight tells where core 0     *)
(* waits; from the answer to one that cancels the timer to the answer to   *)
(* the one that starts it again, no timer runs.                            *)
Stopped == \/ core0 = "program"
           \/ core0 \in {"disabling", "selecting"} /\ message = "none"
           \/ core0 \in {"enabling", "forcing"} /\ message # "none"

MessageInv ==
    /\ message = "disable" => core0 \in {"disabling", "selecting"}
    /\ message = "enable" => core0 = "enabling"
    /\ message = "force" => core0 = "forcing"
    /\ Stopped => timers = 0

(* The types of the state that messages, requests and timer depend on, and *)
(* of what the labels depend on.                                           *)
ControlType ==
    /\ core0 \in {"idle", "disabling", "program", "enabling", "legacy", "leaving",
                  "selecting", "forcing", "waking", "woken", "scoping"}
    /\ message \in {"none", "disable", "enable", "force"}
    /\ core1 \in {"loop", "poll", "sweep", "collect", "paint", "scoping", "reset"}
    /\ display \in {"default", "scope"}
    /\ timers \in 0..1 /\ disturbances \in 0..2

LabelType ==
    /\ flags \subseteq {"labels", "force"}
    /\ changed \subseteq Pins /\ unseen \subseteq Pins /\ overlooked \subseteq Pins

FlagType == {dark, suppress, request, force, firing} \subseteq BOOLEAN

LEMMA ControlStep ==
    ASSUME ControlType, MessageInv, [Next]_vars
    PROVE  ControlType' /\ MessageInv'
<1> USE DEF ControlType, MessageInv, Stopped, Ready, Send, lcd, asked
<1>0. ControlType /\ MessageInv  OBVIOUS
<1>1. ASSUME NEW p \in Pins, Announce(p) PROVE ControlType' /\ MessageInv'
  BY <1>0, <1>1 DEF Announce
<1>2. ASSUME NEW p \in Pins, NEW q \in Pins, AnnounceBoth(p, q) PROVE ControlType' /\ MessageInv'
  BY <1>0, <1>2 DEF AnnounceBoth
<1>3. ASSUME NEW d \in {"default", "scope"}, SelectDisplay(d) PROVE ControlType' /\ MessageInv'
  BY <1>0, <1>3 DEF SelectDisplay
<1>4. CASE StartProgram
  BY <1>0, <1>4 DEF StartProgram
<1>5. CASE Program
  BY <1>0, <1>5 DEF Program
<1>6. CASE EndProgram
  BY <1>0, <1>6 DEF EndProgram
<1>7. CASE StartLegacy \/ EndLegacy
  BY <1>0, <1>7 DEF StartLegacy, EndLegacy
<1>8. CASE Restart
  BY <1>0, <1>8 DEF Restart
<1>9. CASE ForceUpdate
  BY <1>0, <1>9 DEF ForceUpdate
<1>10. CASE Resume
  BY <1>0, <1>10 DEF Resume
<1>11. CASE ReadAdc
  BY <1>0, <1>11 DEF ReadAdc
<1>12. CASE ScreensaverStarts
  BY <1>0, <1>12 DEF ScreensaverStarts
<1>13. CASE Wake
  BY <1>0, <1>13 DEF Wake
<1>14. CASE Repaint
  BY <1>0, <1>14 DEF Repaint
<1>15. CASE Woken
  BY <1>0, <1>15 DEF Woken
<1>16. CASE TimerExpires \/ TimerCallback
  BY <1>0, <1>16 DEF TimerExpires, TimerCallback
<1>17. CASE Poll
  BY <1>0, <1>17 DEF Poll
<1>18. CASE Update
  BY <1>0, <1>18 DEF Update
<1>19. CASE EndOfReading
  BY <1>0, <1>19 DEF EndOfReading
<1>20. CASE Collect
  BY <1>0, <1>20 DEF Collect
<1>21. CASE Paint
  BY <1>0, <1>21 DEF Paint
<1>22. CASE Reset
  BY <1>0, <1>22 DEF Reset
<1>23. CASE Disable
  BY <1>0, <1>23 DEF Disable, TimerCancelled
<1>24. CASE Enable
  BY <1>0, <1>24 DEF Enable
<1>25. CASE ScopeSelects
  BY <1>0, <1>25 DEF ScopeSelects
<1>26. CASE ScopeStarts
  BY <1>0, <1>26 DEF ScopeStarts
<1>27. CASE ScopeSweeps \/ ScopeStops \/ Reads
  BY <1>0, <1>27 DEF ScopeSweeps, ScopeStops, Reads
<1>28. CASE UNCHANGED vars
  BY <1>0, <1>28 DEF vars
<1> QED
  BY <1>1, <1>2, <1>3, <1>4, <1>5, <1>6, <1>7, <1>8, <1>9, <1>10, <1>11, <1>12,
     <1>13, <1>14, <1>15, <1>16, <1>17, <1>18, <1>19, <1>20, <1>21, <1>22, <1>23,
     <1>24, <1>25, <1>26, <1>27, <1>28 DEF Next

(* The rest of the state keeps its types.                                  *)
LEMMA LabelStep ==
    ASSUME LabelType, [Next]_vars
    PROVE  LabelType'
<1> USE DEF LabelType, lcd, asked
<1>0. LabelType  OBVIOUS
<1>1. ASSUME NEW p \in Pins, Announce(p) PROVE LabelType'
  BY <1>0, <1>1 DEF Announce
<1>2. ASSUME NEW p \in Pins, NEW q \in Pins, AnnounceBoth(p, q) PROVE LabelType'
  BY <1>0, <1>2 DEF AnnounceBoth
<1>3. ASSUME NEW d \in {"default", "scope"}, SelectDisplay(d) PROVE LabelType'
  BY <1>0, <1>3 DEF SelectDisplay
<1>4. CASE StartProgram
  BY <1>0, <1>4 DEF StartProgram
<1>5. CASE Program
  BY <1>0, <1>5 DEF Program
<1>6. CASE EndProgram
  BY <1>0, <1>6 DEF EndProgram
<1>7. CASE StartLegacy \/ EndLegacy
  BY <1>0, <1>7 DEF StartLegacy, EndLegacy
<1>8. CASE Restart
  BY <1>0, <1>8 DEF Restart
<1>9. CASE ForceUpdate
  BY <1>0, <1>9 DEF ForceUpdate
<1>10. CASE Resume
  BY <1>0, <1>10 DEF Resume
<1>11. CASE ReadAdc
  BY <1>0, <1>11 DEF ReadAdc
<1>12. CASE ScreensaverStarts
  BY <1>0, <1>12 DEF ScreensaverStarts
<1>13. CASE Wake
  BY <1>0, <1>13 DEF Wake
<1>14. CASE Repaint
  BY <1>0, <1>14 DEF Repaint, Show
<1>15. CASE Woken
  BY <1>0, <1>15 DEF Woken
<1>16. CASE TimerExpires \/ TimerCallback
  BY <1>0, <1>16 DEF TimerExpires, TimerCallback
<1>17. CASE Poll
  BY <1>0, <1>17 DEF Poll
<1>18. CASE Update
  BY <1>0, <1>18 DEF Update
<1>19. CASE EndOfReading
  BY <1>0, <1>19 DEF EndOfReading
<1>20. CASE Collect
  BY <1>0, <1>20 DEF Collect, LabelsIfChanged
<1>21. CASE Paint
  BY <1>0, <1>21 DEF Paint, Show
<1>22. CASE Reset
  BY <1>0, <1>22 DEF Reset
<1>23. CASE Disable
  BY <1>0, <1>23 DEF Disable
<1>24. CASE Enable
  BY <1>0, <1>24 DEF Enable
<1>25. CASE ScopeSelects
  BY <1>0, <1>25 DEF ScopeSelects
<1>26. CASE ScopeStarts
  BY <1>0, <1>26 DEF ScopeStarts
<1>27. CASE ScopeSweeps \/ ScopeStops \/ Reads
  BY <1>0, <1>27 DEF ScopeSweeps, ScopeStops, Reads
<1>28. CASE UNCHANGED vars
  BY <1>0, <1>28 DEF vars
<1> QED
  BY <1>1, <1>2, <1>3, <1>4, <1>5, <1>6, <1>7, <1>8, <1>9, <1>10, <1>11, <1>12,
     <1>13, <1>14, <1>15, <1>16, <1>17, <1>18, <1>19, <1>20, <1>21, <1>22, <1>23,
     <1>24, <1>25, <1>26, <1>27, <1>28 DEF Next

LEMMA FlagStep ==
    ASSUME FlagType, [Next]_vars
    PROVE  FlagType'
<1> USE DEF FlagType, lcd, asked
<1>0. FlagType  OBVIOUS
<1>1. ASSUME NEW p \in Pins, Announce(p) PROVE FlagType'
  BY <1>0, <1>1 DEF Announce
<1>2. ASSUME NEW p \in Pins, NEW q \in Pins, AnnounceBoth(p, q) PROVE FlagType'
  BY <1>0, <1>2 DEF AnnounceBoth
<1>3. ASSUME NEW d \in {"default", "scope"}, SelectDisplay(d) PROVE FlagType'
  BY <1>0, <1>3 DEF SelectDisplay
<1>4. CASE StartProgram
  BY <1>0, <1>4 DEF StartProgram
<1>5. CASE Program
  BY <1>0, <1>5 DEF Program
<1>6. CASE EndProgram
  BY <1>0, <1>6 DEF EndProgram
<1>7. CASE StartLegacy \/ EndLegacy
  BY <1>0, <1>7 DEF StartLegacy, EndLegacy
<1>8. CASE Restart
  BY <1>0, <1>8 DEF Restart
<1>9. CASE ForceUpdate
  BY <1>0, <1>9 DEF ForceUpdate
<1>10. CASE Resume
  BY <1>0, <1>10 DEF Resume
<1>11. CASE ReadAdc
  BY <1>0, <1>11 DEF ReadAdc
<1>12. CASE ScreensaverStarts
  BY <1>0, <1>12 DEF ScreensaverStarts
<1>13. CASE Wake
  BY <1>0, <1>13 DEF Wake
<1>14. CASE Repaint
  BY <1>0, <1>14 DEF Repaint
<1>15. CASE Woken
  BY <1>0, <1>15 DEF Woken
<1>16. CASE TimerExpires \/ TimerCallback
  BY <1>0, <1>16 DEF TimerExpires, TimerCallback
<1>17. CASE Poll
  BY <1>0, <1>17 DEF Poll
<1>18. CASE Update
  BY <1>0, <1>18 DEF Update
<1>19. CASE EndOfReading
  BY <1>0, <1>19 DEF EndOfReading
<1>20. CASE Collect
  BY <1>0, <1>20 DEF Collect
<1>21. CASE Paint
  BY <1>0, <1>21 DEF Paint
<1>22. CASE Reset
  BY <1>0, <1>22 DEF Reset
<1>23. CASE Disable
  BY <1>0, <1>23 DEF Disable
<1>24. CASE Enable
  BY <1>0, <1>24, Zenon DEF Enable, Forced
<1>25. CASE ScopeSelects
  BY <1>0, <1>25 DEF ScopeSelects
<1>26. CASE ScopeStarts
  BY <1>0, <1>26 DEF ScopeStarts
<1>27. CASE ScopeSweeps \/ ScopeStops \/ Reads
  BY <1>0, <1>27 DEF ScopeSweeps, ScopeStops, Reads
<1>28. CASE UNCHANGED vars
  BY <1>0, <1>28 DEF vars
<1> QED
  BY <1>1, <1>2, <1>3, <1>4, <1>5, <1>6, <1>7, <1>8, <1>9, <1>10, <1>11, <1>12,
     <1>13, <1>14, <1>15, <1>16, <1>17, <1>18, <1>19, <1>20, <1>21, <1>22, <1>23,
     <1>24, <1>25, <1>26, <1>27, <1>28 DEF Next

LEMMA TypesTogether == TypeOK <=> ConverterTypeOK /\ ControlType /\ LabelType /\ FlagType
  BY DEF TypeOK, ControlType, LabelType, FlagType

LEMMA InitTypes == Init => ControlType /\ LabelType /\ FlagType /\ MessageInv
<1> SUFFICES ASSUME Init PROVE ControlType /\ LabelType /\ FlagType /\ MessageInv  OBVIOUS
<1>1. ControlType /\ LabelType /\ MessageInv
  BY DEF Init, ControlType, LabelType, MessageInv, Stopped
<1>2. FlagType  BY Zenon DEF Init, FlagType
<1> QED  BY <1>1, <1>2

(* The type invariant of run monitor, for every set of channels and pins:  *)
(* that at most one timer runs rests on the order of the messages.         *)
THEOREM TypeCorrect == Spec => []TypeOK
<1> DEFINE IInv == ConverterInv /\ ControlType /\ LabelType /\ FlagType /\ MessageInv
<1>1. Init => IInv  BY InitConverterInv, InitTypes
<1>2. IInv /\ [Next]_vars => IInv'
  BY UsesConverter, ConverterStep, ControlStep, LabelStep, FlagStep
<1>3. IInv => TypeOK  BY TypesTogether DEF ConverterInv
<1> QED  BY <1>1, <1>2, <1>3, PTL DEF Spec

-----------------------------------------------------------------------------
(* The bus.  Asked: an update will come without a further callback of the  *)
(* timer.  Once the message that cancels the timer has been answered, only *)
(* the callback that was on its way can still ask for an update, and once. *)
Asked == request /\ core1 \in {"loop", "poll"}

BusInv ==
    /\ core0 = "disabling" /\ message = "none" => ~(Asked /\ firing)
    /\ core0 = "program" =>
           \/ disturbances = 0 /\ ~(Asked /\ firing)
           \/ disturbances = 1 /\ ~Asked /\ ~firing
    /\ core0 = "legacy" => suppress /\ disturbances \in 0..1

LEMMA BusStep ==
    ASSUME ControlType, MessageInv, BusInv, [Next]_vars
    PROVE  BusInv'
<1> USE DEF ControlType, MessageInv, Stopped, BusInv, Asked, Ready, Send, lcd, asked
<1>0. ControlType /\ MessageInv /\ BusInv  OBVIOUS
<1>1. ASSUME NEW p \in Pins, Announce(p) PROVE BusInv'
  BY <1>0, <1>1 DEF Announce
<1>2. ASSUME NEW p \in Pins, NEW q \in Pins, AnnounceBoth(p, q) PROVE BusInv'
  BY <1>0, <1>2 DEF AnnounceBoth
<1>3. ASSUME NEW d \in {"default", "scope"}, SelectDisplay(d) PROVE BusInv'
  BY <1>0, <1>3 DEF SelectDisplay
<1>4. CASE StartProgram
  BY <1>0, <1>4 DEF StartProgram
<1>5. CASE Program
  BY <1>0, <1>5 DEF Program
<1>6. CASE EndProgram
  BY <1>0, <1>6 DEF EndProgram
<1>7. CASE StartLegacy \/ EndLegacy
  BY <1>0, <1>7 DEF StartLegacy, EndLegacy
<1>8. CASE Restart
  BY <1>0, <1>8 DEF Restart
<1>9. CASE ForceUpdate
  BY <1>0, <1>9 DEF ForceUpdate
<1>10. CASE Resume
  BY <1>0, <1>10 DEF Resume
<1>11. CASE ReadAdc
  BY <1>0, <1>11 DEF ReadAdc
<1>12. CASE ScreensaverStarts
  BY <1>0, <1>12 DEF ScreensaverStarts
<1>13. CASE Wake
  BY <1>0, <1>13 DEF Wake
<1>14. CASE Repaint
  BY <1>0, <1>14 DEF Repaint
<1>15. CASE Woken
  BY <1>0, <1>15 DEF Woken
<1>16. CASE TimerExpires \/ TimerCallback
  BY <1>0, <1>16 DEF TimerExpires, TimerCallback
<1>17. CASE Poll
  BY <1>0, <1>17 DEF Poll
<1>18. CASE Update
  BY <1>0, <1>18 DEF Update, NoSweep
<1>19. CASE EndOfReading
  BY <1>0, <1>19 DEF EndOfReading
<1>20. CASE Collect
  BY <1>0, <1>20 DEF Collect
<1>21. CASE Paint
  BY <1>0, <1>21 DEF Paint
<1>22. CASE Reset
  BY <1>0, <1>22 DEF Reset
<1>23. CASE Disable
  BY <1>0, <1>23 DEF Disable, TimerCancelled
<1>24. CASE Enable
  BY <1>0, <1>24 DEF Enable
<1>25. CASE ScopeSelects
  BY <1>0, <1>25 DEF ScopeSelects
<1>26. CASE ScopeStarts
  BY <1>0, <1>26 DEF ScopeStarts
<1>27. CASE ScopeSweeps \/ ScopeStops \/ Reads
  BY <1>0, <1>27 DEF ScopeSweeps, ScopeStops, Reads
<1>28. CASE UNCHANGED vars
  BY <1>0, <1>28 DEF vars
<1> QED
  BY <1>1, <1>2, <1>3, <1>4, <1>5, <1>6, <1>7, <1>8, <1>9, <1>10, <1>11, <1>12,
     <1>13, <1>14, <1>15, <1>16, <1>17, <1>18, <1>19, <1>20, <1>21, <1>22, <1>23,
     <1>24, <1>25, <1>26, <1>27, <1>28 DEF Next

(* Whatever stops and starts the timer, the monitor sweeps at most once    *)
(* while the bus is claimed: as in run monitor, for every set of pins.     *)
THEOREM BusIsClaimed == Spec => []BusIsLeftAlone
<1> DEFINE IInv == ControlType /\ MessageInv /\ BusInv
<1>1. Init => IInv  BY InitTypes DEF Init, BusInv
<1>2. IInv /\ [Next]_vars => IInv'  BY ControlStep, BusStep
<1>3. IInv => BusIsLeftAlone  BY DEF BusInv, BusIsLeftAlone
<1> QED  BY <1>1, <1>2, <1>3, PTL DEF Spec

-----------------------------------------------------------------------------
(* The labels.  Lit: the LCD shows labels, and no message that forces an   *)
(* update is still to be sent or answered.  What core 1 has collected must *)
(* cover every label that is out of date, before it paints; once it has    *)
(* painted, only those may be left that were marked meanwhile.             *)
Lit == /\ display = "default" /\ ~dark
       /\ core0 # "selecting" /\ ~(core0 = "forcing" /\ message = "force")

Marked == unseen \subseteq changed \cup overlooked
Shown  == unseen \subseteq overlooked

LabelInv ==
    /\ Lit /\ core1 \in {"loop", "poll", "sweep", "collect"} => force \/ Marked
    /\ Lit /\ core1 \in {"paint", "scoping"} =>
           "force" \in flags \/ (Marked /\ ("labels" \in flags \/ Shown))
    /\ Lit /\ core1 = "reset" => Shown
    /\ display = "default" /\ core0 = "woken" => Shown

LEMMA LabelInvStep ==
    ASSUME ControlType, MessageInv, LabelType, LabelInv, [Next]_vars
    PROVE  LabelInv'
<1> USE DEF ControlType, MessageInv, LabelType, LabelInv, Lit, Marked, Shown, Ready, Send, lcd,
            asked
<1>0. ControlType /\ MessageInv /\ LabelType /\ LabelInv  OBVIOUS
<1>1. ASSUME NEW p \in Pins, Announce(p) PROVE LabelInv'
  BY <1>0, <1>1 DEF Announce, AtWork, Clearing
<1>2. ASSUME NEW p \in Pins, NEW q \in Pins, AnnounceBoth(p, q) PROVE LabelInv'
  BY <1>0, <1>2 DEF AnnounceBoth, AtWork
<1>3. ASSUME NEW d \in {"default", "scope"}, SelectDisplay(d) PROVE LabelInv'
  BY <1>0, <1>3 DEF SelectDisplay
<1>4. CASE StartProgram
  BY <1>0, <1>4 DEF StartProgram
<1>5. CASE Program
  BY <1>0, <1>5 DEF Program
<1>6. CASE EndProgram
  BY <1>0, <1>6 DEF EndProgram
<1>7. CASE StartLegacy \/ EndLegacy
  BY <1>0, <1>7 DEF StartLegacy, EndLegacy
<1>8. CASE Restart
  BY <1>0, <1>8 DEF Restart
<1>9. CASE ForceUpdate
  BY <1>0, <1>9 DEF ForceUpdate
<1>10. CASE Resume
  BY <1>0, <1>10 DEF Resume
<1>11. CASE ReadAdc
  BY <1>0, <1>11 DEF ReadAdc
<1>12. CASE ScreensaverStarts
  BY <1>0, <1>12 DEF ScreensaverStarts
<1>13. CASE Wake
  BY <1>0, <1>13 DEF Wake
<1>14. CASE Repaint
  BY <1>0, <1>14 DEF Repaint, Show
<1>15. CASE Woken
  BY <1>0, <1>15 DEF Woken
<1>16. CASE TimerExpires \/ TimerCallback
  BY <1>0, <1>16 DEF TimerExpires, TimerCallback
<1>17. CASE Poll
  BY <1>0, <1>17 DEF Poll
<1>18. CASE Update
  BY <1>0, <1>18 DEF Update
<1>19. CASE EndOfReading
  BY <1>0, <1>19 DEF EndOfReading
<1>20. CASE Collect
  BY <1>0, <1>20 DEF Collect, LabelsIfChanged
<1>21. CASE Paint
  BY <1>0, <1>21 DEF Paint, Show
<1>22. CASE Reset
  BY <1>0, <1>22 DEF Reset
<1>23. CASE Disable
  BY <1>0, <1>23 DEF Disable
<1>24. CASE Enable
  BY <1>0, <1>24 DEF Enable, Forced
<1>25. CASE ScopeSelects
  BY <1>0, <1>25 DEF ScopeSelects
<1>26. CASE ScopeStarts
  BY <1>0, <1>26 DEF ScopeStarts
<1>27. CASE ScopeSweeps \/ ScopeStops \/ Reads
  BY <1>0, <1>27 DEF ScopeSweeps, ScopeStops, Reads
<1>28. CASE UNCHANGED vars
  BY <1>0, <1>28 DEF vars
<1> QED
  BY <1>1, <1>2, <1>3, <1>4, <1>5, <1>6, <1>7, <1>8, <1>9, <1>10, <1>11, <1>12,
     <1>13, <1>14, <1>15, <1>16, <1>17, <1>18, <1>19, <1>20, <1>21, <1>22, <1>23,
     <1>24, <1>25, <1>26, <1>27, <1>28 DEF Next

(* A label that has changed reaches the LCD, however announcements,        *)
(* updates, screensaver, displays and messages follow each other, unless   *)
(* it was marked while marks were being cleared: as in run monitor, for    *)
(* every set of pins.                                                      *)
THEOREM LabelsAreShown == Spec => []LabelsReachTheLcd
<1> DEFINE IInv == ControlType /\ MessageInv /\ LabelType /\ LabelInv
<1>1. Init => IInv  BY InitTypes DEF Init, LabelInv, Lit, Marked, Shown
<1>2. IInv /\ [Next]_vars => IInv'  BY ControlStep, LabelStep, LabelInvStep
<1>3. IInv => LabelsReachTheLcd
  BY DEF ControlType, MessageInv, LabelInv, Lit, Marked, LabelsReachTheLcd
<1> QED  BY <1>1, <1>2, <1>3, PTL DEF Spec

=============================================================================
