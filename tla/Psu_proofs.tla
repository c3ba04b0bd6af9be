----------------------------- MODULE Psu_proofs -----------------------------
(***************************************************************************)
(* Proofs about the power supply, for every set of loads.                  *)
(*                                                                         *)
(* Two arguments.  SwitchInv follows the two cores through their calls of  *)
(* psu_disable and psu_enable: whoever is past the first assignment of     *)
(* psu_disable finds the supply disabled until it is through, and core 0   *)
(* switches on only when core 1 polls nothing.  FaultInv says where a poll *)
(* may be wrong without a refused conversion: only between psu_vout_ok and *)
(* the re-check of a poll during which the supply was turned off.          *)
(***************************************************************************)
EXTENDS Psu, TLAPS

Switching == {"setup", "power", "settle", "fuse", "vout", "backflow", "enable", "failed"}
Returning == {"off", "cut", "cool"}
Undisturbed == {"prompt", "command", "return", "test_error", "show", "clear_error"}
Polling == {"fuse", "vout", "recheck"}
TurningOff == {"cut", "cool", "pending", "callback"}

SwitchInv ==
    /\ enabled => vreg
    /\ c1 \in TurningOff => ~enabled
    /\ c0 \in {"cut", "cool"} => ~enabled
    /\ c0 \in Returning => then # "none"
    /\ c0 = "cool" => ~vreg
    /\ c0 \in Switching => ~enabled /\ c1 \in {"test", "cool", "pending", "callback"}
    /\ c0 \in {"settle", "fuse", "vout", "backflow", "enable"} => vreg
    /\ c0 \in {"fuse", "vout", "backflow", "enable"} => c1 = "test"
    /\ c0 \in Undisturbed /\ c1 \in {"test", "cool", "pending", "callback"} \cup Polling
           => enabled = vreg

FaultInv ==
    /\ load # "ok" => faulty
    /\ tripped => faulty
    /\ c0 \in {"power", "settle", "fuse", "vout", "backflow", "enable"}
           => ~overcurrent /\ ~undervoltage
    /\ enabled /\ c1 = "test" => ~overcurrent /\ ~undervoltage
    /\ c1 = "fuse" => ~overcurrent /\ ~undervoltage
    /\ c1 = "vout" => ~undervoltage
    /\ c1 \in {"vout", "recheck"} /\ bad => faulty \/ refused \/ (c1 = "recheck" /\ ~enabled)
    /\ c1 \in {"off", "cut", "cool", "pending"} => faulty \/ refused

-----------------------------------------------------------------------------
(* TypeOK, one variable at a time: the provers see Boolean variables and   *)
(* the other ones with different eyes.                                     *)
BooleanVars ==
    /\ enabled \in BOOLEAN /\ overcurrent \in BOOLEAN /\ undervoltage \in BOOLEAN
    /\ pending \in BOOLEAN /\ uv_override \in BOOLEAN /\ vreg \in BOOLEAN
    /\ limiting \in BOOLEAN /\ tripped \in BOOLEAN /\ faulty \in BOOLEAN
    /\ scope_running \in BOOLEAN /\ error \in BOOLEAN /\ limited \in BOOLEAN
    /\ bad \in BOOLEAN /\ refused \in BOOLEAN

OtherVars ==
    /\ load \in Loads
    /\ c0 \in Undisturbed \cup Switching \cup Returning
    /\ then \in {"none", "setup", "failed", "return"}
    /\ c1 \in {"test", "off"} \cup Polling \cup TurningOff

Typed == BooleanVars /\ OtherVars

LEMMA TypedIsTypeOK == Typed <=> TypeOK
<1> USE DEF Undisturbed, Switching, Returning, Polling, TurningOff
<1> QED  BY DEF Typed, BooleanVars, OtherVars, TypeOK

IInv == Typed /\ SwitchInv

LEMMA InitIInv == Init => IInv
  BY PsuAssumption
     DEF Init, IInv, Typed, BooleanVars, OtherVars, SwitchInv, Undisturbed, Switching,
         Returning, Polling, TurningOff

LEMMA NextBooleanVars == IInv /\ [Next]_vars => BooleanVars'
<1> SUFFICES ASSUME IInv, [Next]_vars PROVE BooleanVars'
  OBVIOUS
<1> USE DEF flags, circuit, world, core0, core1
<1>0. BooleanVars
  BY DEF IInv, Typed
<1> QED
  <2>1. CASE LoadChanges
    BY <2>1, <1>0, ZenonT(60) DEF LoadChanges, BooleanVars
  <2>2. CASE Trip
    BY <2>2, <1>0, ZenonT(60) DEF Trip, BooleanVars
  <2>3. CASE UNCHANGED vars
    BY <2>3, <1>0, ZenonT(60) DEF vars, BooleanVars
  <2>4. CASE Command
    BY <2>4, <1>0, ZenonT(60) DEF Command, BooleanVars
  <2>5. CASE NoInput
    BY <2>5, <1>0, ZenonT(60) DEF NoInput, BooleanVars
  <2>6. CASE OtherCommand
    BY <2>6, <1>0, ZenonT(60) DEF OtherCommand, BooleanVars
  <2>7. CASE CommandReturns
    BY <2>7, <1>0, ZenonT(60) DEF CommandReturns, BooleanVars
  <2>8. CASE TestError
    BY <2>8, <1>0, ZenonT(60) DEF TestError, BooleanVars
  <2>9. CASE Show
    BY <2>9, <1>0, ZenonT(60) DEF Show, BooleanVars
  <2>10. CASE ClearError
    BY <2>10, <1>0, ZenonT(60) DEF ClearError, BooleanVars
  <2>11. CASE EnableCommand
    BY <2>11, <1>0, ZenonT(60) DEF EnableCommand, Call, BooleanVars
  <2>12. CASE DisableCommand
    BY <2>12, <1>0, ZenonT(60) DEF DisableCommand, Call, BooleanVars
  <2>13. CASE Failed
    BY <2>13, <1>0, ZenonT(60) DEF Failed, Call, BooleanVars
  <2>14. CASE Off0
    BY <2>14, <1>0, ZenonT(60) DEF Off0, BooleanVars
  <2>15. CASE Cut0
    BY <2>15, <1>0, ZenonT(60) DEF Cut0, VregOff, BooleanVars
  <2>16. CASE Cool0
    BY <2>16, <1>0, ZenonT(60) DEF Cool0, Return, BooleanVars
  <2>17. CASE Setup
    BY <2>17, <1>0, ZenonT(60) DEF Setup, BooleanVars
  <2>18. CASE Power
    BY <2>18, <1>0, ZenonT(60) DEF Power, BooleanVars
  <2>19. CASE Settle
    BY <2>19, <1>0, ZenonT(60) DEF Settle, BooleanVars
  <2>20. CASE Checks
    BY <2>20, <1>0 DEF Checks, Check, Call, BooleanVars
  <2>21. CASE Enable
    BY <2>21, <1>0, ZenonT(60) DEF Enable, BooleanVars
  <2>22. CASE PollTest
    BY <2>22, <1>0, ZenonT(60) DEF PollTest, BooleanVars
  <2>23. CASE PollFuse
    BY <2>23, <1>0, ZenonT(60) DEF PollFuse, BooleanVars
  <2>24. CASE PollVout
    BY <2>24, <1>0, ZenonT(60) DEF PollVout, BooleanVars
  <2>25. CASE PollRecheck
    BY <2>25, <1>0, ZenonT(60) DEF PollRecheck, StillEnabled, BooleanVars
  <2>26. CASE Off1
    BY <2>26, <1>0, ZenonT(60) DEF Off1, BooleanVars
  <2>27. CASE Cut1
    BY <2>27, <1>0, ZenonT(60) DEF Cut1, VregOff, BooleanVars
  <2>28. CASE Cool1
    BY <2>28, <1>0, ZenonT(60) DEF Cool1, BooleanVars
  <2>29. CASE SetPending
    BY <2>29, <1>0, ZenonT(60) DEF SetPending, BooleanVars
  <2>30. CASE Callback
    BY <2>30, <1>0, ZenonT(60) DEF Callback, BooleanVars
  <2>31. CASE ScopeSwitch
    BY <2>31, <1>0, ZenonT(60) DEF ScopeSwitch, BooleanVars
  <2> QED
    BY <2>1, <2>2, <2>3, <2>4, <2>5, <2>6, <2>7, <2>8, <2>9, <2>10, <2>11, <2>12, <2>13,
       <2>14, <2>15, <2>16, <2>17, <2>18, <2>19, <2>20, <2>21, <2>22, <2>23, <2>24, <2>25, <2>26,
       <2>27, <2>28, <2>29, <2>30, <2>31
       DEF Next, Core0, Core0Continues, Core1

LEMMA NextOtherVars == IInv /\ [Next]_vars => OtherVars'
<1> SUFFICES ASSUME IInv, [Next]_vars PROVE OtherVars'
  OBVIOUS
<1> USE DEF flags, circuit, world, core0, core1
<1> USE DEF Undisturbed, Switching, Returning, Polling, TurningOff
<1>0. OtherVars /\ (c0 \in Returning => then # "none")
  BY DEF IInv, SwitchInv, Typed
<1> QED
  <2>1. CASE LoadChanges \/ Trip \/ ScopeSwitch \/ UNCHANGED vars
    BY <2>1, <1>0 DEF LoadChanges, Trip, ScopeSwitch, vars, OtherVars
  <2>2. CASE Command \/ NoInput \/ OtherCommand
             \/ CommandReturns \/ TestError \/ Show \/ ClearError
    BY <2>2, <1>0
       DEF Command, NoInput, OtherCommand, CommandReturns, TestError, Show, ClearError,
           OtherVars
  <2>3. CASE EnableCommand \/ DisableCommand \/ Failed
    BY <2>3, <1>0 DEF EnableCommand, DisableCommand, Failed, Call, OtherVars
  <2>4. CASE Off0 \/ Cut0 \/ Cool0
    BY <2>4, <1>0 DEF Off0, Cut0, Cool0, VregOff, Return, OtherVars
  <2>5. CASE Setup \/ Power \/ Settle
    BY <2>5, <1>0 DEF Setup, Power, Settle, OtherVars
  <2>6. CASE Checks
    BY <2>6, <1>0 DEF Checks, Check, Call, OtherVars
  <2>7. CASE Enable
    BY <2>7, <1>0 DEF Enable, OtherVars
  <2>8. CASE PollTest \/ PollFuse \/ PollVout
    BY <2>8, <1>0 DEF PollTest, PollFuse, PollVout, OtherVars
  <2>9. CASE PollRecheck
    BY <2>9, <1>0 DEF PollRecheck, StillEnabled, OtherVars
  <2>10. CASE Off1 \/ Cut1 \/ Cool1
    BY <2>10, <1>0 DEF Off1, Cut1, Cool1, VregOff, OtherVars
  <2>11. CASE SetPending \/ Callback
    BY <2>11, <1>0 DEF SetPending, Callback, OtherVars
  <2> QED
    BY <2>1, <2>2, <2>3, <2>4, <2>5, <2>6, <2>7, <2>8, <2>9, <2>10, <2>11
       DEF Next, Core0, Core0Continues, Core1

LEMMA NextSwitch == IInv /\ [Next]_vars => SwitchInv'
<1> SUFFICES ASSUME IInv, [Next]_vars PROVE SwitchInv'
  OBVIOUS
<1> USE DEF flags, circuit, world, core0, core1
<1> USE DEF Undisturbed, Switching, Returning, Polling, TurningOff
<1>0. /\ c0 \in Undisturbed \cup Switching \cup Returning
      /\ c1 \in {"test", "off"} \cup Polling \cup TurningOff
      /\ then \in {"none", "setup", "failed", "return"}
      /\ enabled \in BOOLEAN /\ vreg \in BOOLEAN
      /\ SwitchInv
  BY DEF IInv, Typed, BooleanVars, OtherVars
<1> QED
  <2>1. CASE LoadChanges \/ Trip \/ ScopeSwitch \/ UNCHANGED vars
    BY <2>1, <1>0 DEF LoadChanges, Trip, ScopeSwitch, vars, SwitchInv
  <2>2. CASE Command
    BY <2>2, <1>0 DEF Command, SwitchInv
  <2>3. CASE NoInput
    BY <2>3, <1>0 DEF NoInput, SwitchInv
  <2>4. CASE OtherCommand
    BY <2>4, <1>0 DEF OtherCommand, SwitchInv
  <2>5. CASE CommandReturns
    BY <2>5, <1>0 DEF CommandReturns, SwitchInv
  <2>6. CASE TestError
    BY <2>6, <1>0 DEF TestError, SwitchInv
  <2>7. CASE Show
    BY <2>7, <1>0 DEF Show, SwitchInv
  <2>8. CASE ClearError
    BY <2>8, <1>0 DEF ClearError, SwitchInv
  <2>9. CASE EnableCommand \/ DisableCommand \/ Failed
    BY <2>9, <1>0 DEF EnableCommand, DisableCommand, Failed, Call, SwitchInv
  <2>10. CASE Off0
    BY <2>10, <1>0 DEF Off0, SwitchInv
  <2>11. CASE Cut0
    BY <2>11, <1>0 DEF Cut0, VregOff, SwitchInv
  <2>12. CASE Cool0
    BY <2>12, <1>0 DEF Cool0, Return, SwitchInv
  <2>13. CASE Setup \/ Power \/ Settle
    BY <2>13, <1>0 DEF Setup, Power, Settle, SwitchInv
  <2>14. CASE Checks
    BY <2>14, <1>0 DEF Checks, Check, Call, SwitchInv
  <2>15. CASE Enable
    BY <2>15, <1>0 DEF Enable, SwitchInv
  <2>16. CASE PollTest \/ PollFuse \/ PollVout
    BY <2>16, <1>0 DEF PollTest, PollFuse, PollVout, SwitchInv
  <2>17. CASE PollRecheck
    BY <2>17, <1>0 DEF PollRecheck, StillEnabled, SwitchInv
  <2>18. CASE Off1
    BY <2>18, <1>0 DEF Off1, SwitchInv
  <2>19. CASE Cut1
    BY <2>19, <1>0 DEF Cut1, VregOff, SwitchInv
  <2>20. CASE Cool1
    BY <2>20, <1>0 DEF Cool1, SwitchInv
  <2>21. CASE SetPending \/ Callback
    BY <2>21, <1>0 DEF SetPending, Callback, SwitchInv
  <2> QED
    BY <2>1, <2>2, <2>3, <2>4, <2>5, <2>6, <2>7, <2>8, <2>9, <2>10, <2>11, <2>12, <2>13,
       <2>14, <2>15, <2>16, <2>17, <2>18, <2>19, <2>20, <2>21
       DEF Next, Core0, Core0Continues, Core1

LEMMA Inductive == Spec => []IInv
<1>1. IInv /\ [Next]_vars => IInv'
  BY NextBooleanVars, NextOtherVars, NextSwitch DEF IInv, Typed
<1> QED  BY InitIInv, <1>1, PTL DEF Spec

(* Every reachable state of the supply and of the two cores is well-typed: *)
(* psu_disable returns to one of its callers.                              *)
THEOREM TypeCorrect == Spec => []TypeOK
<1>1. IInv => TypeOK
  BY TypedIsTypeOK DEF IInv
<1> QED  BY Inductive, <1>1, PTL

(* No interleaving of psu_poll_fuse_vout_error with psu_enable and         *)
(* psu_disable leaves the regulator on, or off, behind psu_status.enabled. *)
THEOREM OutputCorrect == Spec => []OutputFollowsStatus
<1>1. IInv => OutputFollowsStatus
  BY DEF IInv, SwitchInv, OutputFollowsStatus, Undisturbed, Polling
<1> QED  BY Inductive, <1>1, PTL

-----------------------------------------------------------------------------
(* Readings are wrong only in a poll that had a conversion refused, or     *)
(* that the supply was turned off under.                                   *)
LEMMA InitFault == Init => FaultInv
  BY DEF Init, FaultInv

LEMMA NextFault == IInv /\ FaultInv /\ [Next]_vars => FaultInv'
<1> SUFFICES ASSUME IInv, FaultInv, [Next]_vars PROVE FaultInv'
  OBVIOUS
<1> USE DEF flags, circuit, world, core0, core1
<1> USE DEF Undisturbed, Switching, Returning, Polling, TurningOff
<1>0. /\ Typed /\ SwitchInv /\ FaultInv
      /\ Loads \subseteq {"ok", "short", "driven"}
  BY PsuAssumption DEF IInv
<1> QED
  <2>1. CASE LoadChanges
    BY <2>1, <1>0 DEF LoadChanges, Typed, BooleanVars, OtherVars, SwitchInv, FaultInv
  <2>2. CASE Trip
    BY <2>2, <1>0 DEF Trip, Typed, BooleanVars, OtherVars, SwitchInv, FaultInv
  <2>3. CASE UNCHANGED vars
    BY <2>3, <1>0 DEF vars, Typed, BooleanVars, OtherVars, SwitchInv, FaultInv
  <2>4. CASE Command
    BY <2>4, <1>0 DEF Command, Typed, BooleanVars, OtherVars, SwitchInv, FaultInv
  <2>5. CASE NoInput
    BY <2>5, <1>0 DEF NoInput, Typed, BooleanVars, OtherVars, SwitchInv, FaultInv
  <2>6. CASE OtherCommand
    BY <2>6, <1>0 DEF OtherCommand, Typed, BooleanVars, OtherVars, SwitchInv, FaultInv
  <2>7. CASE CommandReturns
    BY <2>7, <1>0 DEF CommandReturns, Typed, BooleanVars, OtherVars, SwitchInv, FaultInv
  <2>8. CASE TestError
    BY <2>8, <1>0 DEF TestError, Typed, BooleanVars, OtherVars, SwitchInv, FaultInv
  <2>9. CASE Show
    BY <2>9, <1>0 DEF Show, Typed, BooleanVars, OtherVars, SwitchInv, FaultInv
  <2>10. CASE ClearError
    BY <2>10, <1>0 DEF ClearError, Typed, BooleanVars, OtherVars, SwitchInv, FaultInv
  <2>11. CASE EnableCommand \/ DisableCommand \/ Failed
    BY <2>11, <1>0
       DEF EnableCommand, DisableCommand, Failed, Call,
           Typed, BooleanVars, OtherVars, SwitchInv, FaultInv
  <2>12. CASE Off0 \/ Cut0 \/ Cool0
    BY <2>12, <1>0
       DEF Off0, Cut0, Cool0, VregOff, Return,
           Typed, BooleanVars, OtherVars, SwitchInv, FaultInv
  <2>13. CASE Setup \/ Power \/ Settle
    BY <2>13, <1>0
       DEF Setup, Power, Settle,
           Typed, BooleanVars, OtherVars, SwitchInv, FaultInv
  <2>14. CASE Checks
    BY <2>14, <1>0
       DEF Checks, Check, Call,
           Typed, BooleanVars, OtherVars, SwitchInv, FaultInv
  <2>15. CASE Enable
    BY <2>15, <1>0 DEF Enable, Typed, BooleanVars, OtherVars, SwitchInv, FaultInv
  <2>16. CASE PollTest \/ PollFuse \/ PollVout
    BY <2>16, <1>0
       DEF PollTest, PollFuse, PollVout, FuseOk, VoutOk, VoutHigh,
           Typed, BooleanVars, OtherVars, SwitchInv, FaultInv
  <2>17. CASE PollRecheck
    BY <2>17, <1>0
       DEF PollRecheck, StillEnabled,
           Typed, BooleanVars, OtherVars, SwitchInv, FaultInv
  <2>18. CASE Off1 \/ Cut1 \/ Cool1
    BY <2>18, <1>0
       DEF Off1, Cut1, Cool1, VregOff,
           Typed, BooleanVars, OtherVars, SwitchInv, FaultInv
  <2>19. CASE SetPending \/ Callback
    BY <2>19, <1>0
       DEF SetPending, Callback,
           Typed, BooleanVars, OtherVars, SwitchInv, FaultInv
  <2>20. CASE ScopeSwitch
    BY <2>20, <1>0 DEF ScopeSwitch, Typed, BooleanVars, OtherVars, SwitchInv, FaultInv
  <2> QED
    BY <2>1, <2>2, <2>3, <2>4, <2>5, <2>6, <2>7, <2>8, <2>9, <2>10, <2>11, <2>12, <2>13,
       <2>14, <2>15, <2>16, <2>17, <2>18, <2>19, <2>20
       DEF Next, Core0, Core0Continues, Core1

(* Core 1 trips the supply for a load at fault or for a refused conversion *)
(* and for nothing else: the re-check of psu_status.enabled suffices       *)
(* against a supply that core 0 turns off during a poll.                   *)
THEOREM NoSpuriousTrip == Spec => []NoFalseTrip
<1>1. FaultInv => NoFalseTrip
  BY DEF FaultInv, NoFalseTrip
<1> QED  BY Inductive, InitFault, NextFault, <1>1, PTL DEF Spec

=============================================================================
