----------------------------- MODULE Pins_proofs ----------------------------
(***************************************************************************)
(* The invariants of Pins, for every set of pins, modes and binary modes.  *)
(***************************************************************************)
EXTENDS Pins, TLAPS

Labels == {"none", "AUX", "PWM", "FREQ", "MODE", "BIN", "DEBUG"}
Funcs  == {"IO", "PWM", "FREQ", "MODE", "DEBUG"}
Uses   == [label : Labels, func : Funcs]

(* The pins of the debug UART keep their use through everything; and after *)
(* a binary mode that locks the terminal the books are never in order.     *)
DebugInv  == \A p \in Pins : IF p \in Debug THEN pin[p] = Use("DEBUG", "DEBUG")
                                            ELSE pin[p].func # "DEBUG"
LockedInv == orderly => Unlocked

IInv == TypeOK /\ DebugInv /\ LockedInv

-----------------------------------------------------------------------------
(* What system_pin_update_purpose_and_label does to a board whose debug    *)
(* pins are marked: it changes the other pins, and only those asked for.   *)
LEMMA ClaimedType ==
    ASSUME NEW u \in [Pins -> Uses], NEW S, NEW use \in Uses
    PROVE  /\ Claimed(u, S, use) \in [Pins -> Uses]
           /\ \A p \in Pins : Claimed(u, S, use)[p] =
                 IF p \in S /\ u[p].func # "DEBUG" THEN use ELSE u[p]
  BY DEF Claimed

LEMMA FreeType == Free \in Uses /\ Free.func = "IO" /\ Free.label = "none"
  BY DEF Free, Use, Uses, Labels, Funcs

LEMMA UseType ==
    ASSUME NEW l \in Labels, NEW f \in Funcs
    PROVE  Use(l, f) \in Uses /\ Use(l, f).func = f /\ Use(l, f).label = l
  BY DEF Use, Uses

-----------------------------------------------------------------------------
(* The steps, one fact about each operator that changes pins.              *)
LEMMA TypeStep ==
    ASSUME TypeOK, [Next]_vars
    PROVE  TypeOK'
<1> USE PinsAssumption
<1>0. pin \in [Pins -> Uses] /\ Free \in Uses
  BY FreeType DEF TypeOK, Uses, Labels, Funcs
<1> DEFINE PinOK == pin' \in [Pins -> Uses]
<1>1. ASSUME NEW S, NEW use \in Uses PROVE Claimed(pin, S, use) \in [Pins -> Uses]
  BY <1>0, <1>1, ClaimedType
<1>2. ASSUME NEW S PROVE Released(pin, S) \in [Pins -> Uses]
  BY <1>0, <1>1 DEF Released
<1>3. PinOK => (TypeOK' <=>
        /\ mode' \in Modes /\ binmode' \in Binmodes
        /\ pwm_active' \subseteq Pins /\ freq_active' \subseteq Pins /\ aux_active' \subseteq Pins
        /\ outputs' \subseteq Pins
        /\ power' \in BOOLEAN /\ pullups' \in BOOLEAN /\ orderly' \in BOOLEAN)
  BY DEF TypeOK, Uses, Labels, Funcs
<1>4. /\ Use("AUX", "IO") \in Uses /\ Use("PWM", "PWM") \in Uses /\ Use("FREQ", "FREQ") \in Uses
      /\ Use("MODE", "MODE") \in Uses /\ Use("BIN", "IO") \in Uses
      /\ \A m : ModePurpose(m) \in Uses
  BY UseType DEF Labels, Funcs, ModePurpose
<1>5. ASSUME NEW p \in Pins, AuxCommand(p) PROVE TypeOK'
  <2>1. PinOK  BY <1>1, <1>2, <1>4, <1>5 DEF AuxCommand, Auxiliary, AuxInput
  <2> QED  BY <2>1, <1>3, <1>5 DEF AuxCommand, Auxiliary, AuxInput, TypeOK
<1>6. ASSUME NEW p \in Pins, AuxSyntax(p) PROVE TypeOK'
  <2>1. PinOK  BY <1>1, <1>2, <1>4, <1>6 DEF AuxSyntax, Auxiliary, AuxInput
  <2> QED  BY <2>1, <1>3, <1>6 DEF AuxSyntax, Auxiliary, AuxInput, TypeOK
<1>7. ASSUME NEW p \in Pins, PwmEnable(p) \/ PwmDisable(p) PROVE TypeOK'
  <2>1. PinOK  BY <1>1, <1>2, <1>4, <1>7 DEF PwmEnable, PwmDisable
  <2> QED  BY <2>1, <1>3, <1>7 DEF PwmEnable, PwmDisable, TypeOK
<1>8. ASSUME NEW p \in Pins, FreqEnable(p) \/ FreqDisable(p) PROVE TypeOK'
  <2>1. PinOK  BY <1>1, <1>2, <1>4, <1>8 DEF FreqEnable, FreqDisable
  <2> QED  BY <2>1, <1>3, <1>8 DEF FreqEnable, FreqDisable, TypeOK, board
<1>9. ASSUME DioWrite PROVE TypeOK'
  <2>1. PinOK  BY <1>1, <1>4, <1>9 DEF DioWrite
  <2> QED  BY <2>1, <1>3, <1>9 DEF DioWrite, DioPins, TypeOK
<1>10. ASSUME Supply PROVE TypeOK'
  BY <1>10 DEF Supply, TypeOK, active
<1>11. ASSUME Sniff PROVE TypeOK'
  <2>1. SniffReleases \in [Pins -> Uses]  BY <1>2 DEF SniffReleases
  <2>2. PinOK  BY <2>1, <1>4, <1>11, ClaimedType DEF Sniff
  <2>3. SniffOutputs[mode] \subseteq Pins  BY DEF TypeOK
  <2> QED  BY <2>2, <2>3, <1>3, <1>11 DEF Sniff, TypeOK, active
<1>12. Cleaned \in [Pins -> Uses]  BY <1>2 DEF Cleaned
<1>13. HizReleases \in [Pins -> Uses]
  BY <1>12, FreeType, ClaimedType DEF HizReleases, Released
<1>14. ASSUME NEW m \in Modes, ModeSwitch(m) PROVE TypeOK'
  <2>1. PinOK  BY <1>13, <1>4, <1>14, ClaimedType DEF ModeSwitch, SetUp, FallBack
  <2>2. mode' \in Modes /\ binmode' \in Binmodes
    BY <1>14 DEF ModeSwitch, SetUp, FallBack, TypeOK
  <2>3. power' \in BOOLEAN
    <3>1. (m \in PowerModes) \in BOOLEAN  OBVIOUS
    <3>2. (power' = (m \in PowerModes)) \/ (power' = FALSE)
      BY <1>14, Zenon DEF ModeSwitch, SetUp, FallBack
    <3> QED  BY <3>1, <3>2, Zenon
  <2> QED  BY <2>1, <2>2, <2>3, <1>3, <1>14 DEF ModeSwitch
<1>15. ASSUME NEW b \in Binmodes, BinmodeCommand(b) PROVE TypeOK'
  <2>1. PinOK  BY <1>0, <1>12, <1>4, <1>15, ClaimedType DEF BinmodeCommand
  <2> QED  BY <2>1, <1>3, <1>15 DEF BinmodeCommand, TypeOK, active
<1>16. ASSUME BinmodeExit PROVE TypeOK'
  <2>1. PinOK  BY <1>2, <1>16 DEF BinmodeExit
  <2> QED  BY <2>1, <1>3, <1>16 DEF BinmodeExit, TypeOK, active
<1>17. CASE UNCHANGED vars
  BY <1>17 DEF TypeOK, vars, active, board
<1> QED
  BY <1>5, <1>6, <1>7, <1>8, <1>9, <1>10, <1>11, <1>14, <1>15, <1>16, <1>17 DEF Next

(* Debug pins keep their mark, and no other pin gets it.                   *)
LEMMA DebugStep ==
    ASSUME TypeOK, DebugInv, [Next]_vars
    PROVE  DebugInv'
<1> DEFINE Marked(u) == \A p \in Pins : IF p \in Debug THEN u[p] = Use("DEBUG", "DEBUG")
                                                     ELSE u[p].func # "DEBUG"
           Plain(use) == use \in Uses /\ use.func # "DEBUG"
<1>1. pin \in [Pins -> Uses]
  BY DEF TypeOK, Uses, Labels, Funcs
<1>2. Use("DEBUG", "DEBUG").func = "DEBUG"
  BY UseType DEF Labels, Funcs
<1>3. ASSUME NEW u \in [Pins -> Uses], Marked(u), NEW S, NEW use, Plain(use)
      PROVE  Claimed(u, S, use) \in [Pins -> Uses] /\ Marked(Claimed(u, S, use))
  BY <1>2, <1>3, ClaimedType
<1>4. ASSUME NEW u \in [Pins -> Uses], Marked(u), NEW S
      PROVE  Released(u, S) \in [Pins -> Uses] /\ Marked(Released(u, S))
  BY <1>3, <1>4, FreeType DEF Released
<1>5. /\ Plain(Use("AUX", "IO")) /\ Plain(Use("PWM", "PWM")) /\ Plain(Use("FREQ", "FREQ"))
      /\ Plain(Use("MODE", "MODE")) /\ Plain(Use("BIN", "IO"))
      /\ \A m : Plain(ModePurpose(m))
  BY UseType DEF Labels, Funcs, ModePurpose
<1>6. Marked(pin)  BY DEF DebugInv
<1>7. SUFFICES Marked(pin')  BY DEF DebugInv
<1> HIDE DEF Marked, Plain
<1>8. Cleaned \in [Pins -> Uses] /\ Marked(Cleaned)  BY <1>1, <1>4, <1>6 DEF Cleaned
<1>9. HizReleases \in [Pins -> Uses] /\ Marked(HizReleases)  BY <1>4, <1>8 DEF HizReleases
<1>10. SniffReleases \in [Pins -> Uses] /\ Marked(SniffReleases)
  BY <1>1, <1>4, <1>6 DEF SniffReleases
<1>11. ASSUME NEW p \in Pins, AuxCommand(p) \/ AuxSyntax(p) PROVE Marked(pin')
  BY <1>1, <1>3, <1>4, <1>5, <1>6, <1>11 DEF AuxCommand, AuxSyntax, Auxiliary, AuxInput
<1>12. ASSUME NEW p \in Pins, PwmEnable(p) \/ PwmDisable(p) \/ FreqEnable(p) \/ FreqDisable(p)
       PROVE  Marked(pin')
  BY <1>1, <1>3, <1>4, <1>5, <1>6, <1>12 DEF PwmEnable, PwmDisable, FreqEnable, FreqDisable
<1>13. ASSUME DioWrite PROVE Marked(pin')  BY <1>1, <1>3, <1>5, <1>6, <1>13 DEF DioWrite
<1>14. ASSUME Sniff PROVE Marked(pin')  BY <1>3, <1>5, <1>10, <1>14 DEF Sniff
<1>15. ASSUME NEW m \in Modes, ModeSwitch(m) PROVE Marked(pin')
  BY <1>3, <1>5, <1>9, <1>15 DEF ModeSwitch, SetUp, FallBack
<1>16. ASSUME NEW b \in Binmodes, BinmodeCommand(b) PROVE Marked(pin')
  BY <1>3, <1>5, <1>6, <1>8, <1>16 DEF BinmodeCommand
<1>17. ASSUME BinmodeExit PROVE Marked(pin')  BY <1>1, <1>4, <1>6, <1>17 DEF BinmodeExit
<1>18. ASSUME Supply \/ UNCHANGED vars PROVE Marked(pin')  BY <1>6, <1>18 DEF Supply, vars
<1> QED
  BY <1>11, <1>12, <1>13, <1>14, <1>15, <1>16, <1>17, <1>18 DEF Next

LEMMA LockedStep ==
    ASSUME TypeOK, LockedInv, [Next]_vars
    PROVE  LockedInv'
<1> USE PinsAssumption DEF LockedInv, Unlocked
<1>1. ASSUME NEW p \in Pins,
             AuxCommand(p) \/ AuxSyntax(p) \/ PwmEnable(p) \/ PwmDisable(p)
                 \/ FreqEnable(p) \/ FreqDisable(p)
      PROVE  LockedInv'
  BY <1>1 DEF AuxCommand, AuxSyntax, Auxiliary, AuxInput, PwmEnable, PwmDisable, FreqEnable,
              FreqDisable
<1>2. ASSUME DioWrite \/ Supply \/ Sniff PROVE LockedInv'
  BY <1>2 DEF DioWrite, Supply, Sniff
<1>3. ASSUME NEW m \in Modes, ModeSwitch(m) PROVE LockedInv'
  BY <1>3 DEF ModeSwitch
<1>4. ASSUME NEW b \in Binmodes, BinmodeCommand(b) PROVE LockedInv'
  BY <1>4 DEF BinmodeCommand
<1>5. ASSUME BinmodeExit PROVE LockedInv'
  BY <1>5 DEF BinmodeExit
<1>6. CASE UNCHANGED vars  BY <1>6 DEF vars
<1> QED  BY <1>1, <1>2, <1>3, <1>4, <1>5, <1>6 DEF Next

LEMMA InitInv == Init => IInv
<1> SUFFICES ASSUME Init PROVE IInv
  OBVIOUS
<1> USE PinsAssumption DEF Init
<1>1. Use("DEBUG", "DEBUG") \in Uses /\ Use("DEBUG", "DEBUG").func = "DEBUG"
  BY UseType DEF Labels, Funcs
<1>2. pin \in [Pins -> Uses]  BY <1>1, FreeType
<1>3. TypeOK  BY <1>2 DEF TypeOK, Uses, Labels, Funcs
<1>4. DebugInv  BY <1>1, FreeType DEF DebugInv
<1>5. LockedInv  BY DEF LockedInv, Unlocked
<1> QED  BY <1>3, <1>4, <1>5 DEF IInv

(* The bookkeeping of pins keeps its type, as in run pins, for all boards. *)
THEOREM TypeCorrect == Spec => []TypeOK
<1>1. IInv /\ [Next]_vars => IInv'
  BY TypeStep, DebugStep, LockedStep DEF IInv
<1>2. IInv => TypeOK  BY DEF IInv
<1> QED  BY InitInv, <1>1, <1>2, PTL DEF Spec

-----------------------------------------------------------------------------
(* A slice serves one purpose whatever the labels say, since PWM and       *)
(* frequency measurement test the masks, too.                              *)
LEMMA SliceStep ==
    ASSUME TypeOK, SliceExclusive, [Next]_vars
    PROVE  SliceExclusive'
<1> USE DEF SliceExclusive
<1>1. \A p, q : SameSlice(p, q) => SameSlice(q, p)
  BY DEF SameSlice
<1>2. ASSUME NEW p \in Pins, PwmEnable(p) PROVE SliceExclusive'
  <2>1. pwm_active' = pwm_active \cup {p} /\ freq_active' = freq_active
    BY <1>2 DEF PwmEnable
  <2>2. \A q \in pwm_active \cup freq_active : ~SameSlice(p, q) /\ ~SameSlice(q, p)
    BY <1>1, <1>2 DEF PwmEnable, PwmAvailable, SliceFree
  <2>3. SameSlice(p, p)  BY DEF SameSlice
  <2> QED  BY <2>1, <2>2, <2>3
<1>3. ASSUME NEW p \in Pins, FreqEnable(p) PROVE SliceExclusive'
  <2>1. freq_active' = freq_active \cup {p} /\ pwm_active' = pwm_active
    BY <1>3 DEF FreqEnable
  <2>2. \A q \in pwm_active : ~SameSlice(p, q) /\ ~SameSlice(q, p)
    BY <1>1, <1>3 DEF FreqEnable, FreqAvailable, SliceFree
  <2>3. SameSlice(p, p)  BY DEF SameSlice
  <2> QED  BY <2>1, <2>2, <2>3
<1>4. ASSUME pwm_active' \subseteq pwm_active, freq_active' \subseteq freq_active
      PROVE  SliceExclusive'
  BY <1>4 DEF SameSlice
<1>5. ASSUME NEW p \in Pins, AuxCommand(p) \/ AuxSyntax(p) \/ PwmDisable(p) \/ FreqDisable(p)
      PROVE  SliceExclusive'
  BY <1>4, <1>5 DEF AuxCommand, AuxSyntax, Auxiliary, AuxInput, PwmDisable, FreqDisable
<1>6. ASSUME DioWrite \/ Supply \/ Sniff \/ BinmodeExit PROVE SliceExclusive'
  BY <1>4, <1>6 DEF DioWrite, Supply, Sniff, BinmodeExit, active
<1>7. ASSUME NEW m \in Modes, ModeSwitch(m) PROVE SliceExclusive'
  BY <1>4, <1>7 DEF ModeSwitch
<1>8. ASSUME NEW b \in Binmodes, BinmodeCommand(b) PROVE SliceExclusive'
  BY <1>4, <1>8 DEF BinmodeCommand, active
<1>9. CASE UNCHANGED vars  BY <1>4, <1>9 DEF vars, active
<1> QED  BY <1>2, <1>3, <1>5, <1>6, <1>7, <1>8, <1>9 DEF Next

(* No two purposes of a slice ever meet, as in run pins, for all boards.   *)
THEOREM SlicesAreExclusive == Spec => []SliceExclusive
<1>1. Init => SliceExclusive  BY DEF Init, SliceExclusive
<1>2. TypeOK /\ SliceExclusive /\ [Next]_vars => SliceExclusive'  BY SliceStep
<1> QED  BY TypeCorrect, <1>1, <1>2, PTL DEF Spec

-----------------------------------------------------------------------------
(* What HiZ leaves of the claims, and what a new mode makes of them.       *)
LEMMA HizReleasesAll ==
    ASSUME TypeOK, DebugInv
    PROVE  /\ HizReleases \in [Pins -> Uses]
           /\ \A p \in Pins : HizReleases[p] =
                 IF p \in Debug THEN Use("DEBUG", "DEBUG") ELSE Free
<1>1. pin \in [Pins -> Uses] /\ Free \in Uses /\ Free.func # "DEBUG"
  BY FreeType DEF TypeOK, Uses, Labels, Funcs
<1>2. Use("DEBUG", "DEBUG").func = "DEBUG"  BY UseType DEF Labels, Funcs
<1>3. /\ Cleaned \in [Pins -> Uses]
      /\ \A p \in Pins : Cleaned[p] = IF p \in ModePins[mode] /\ pin[p].func # "DEBUG"
                                         THEN Free ELSE pin[p]
  BY <1>1, ClaimedType DEF Cleaned, Released
<1>4. \A p \in Pins : IF p \in Debug THEN Cleaned[p] = Use("DEBUG", "DEBUG")
                                     ELSE Cleaned[p].func # "DEBUG"
  BY <1>1, <1>2, <1>3 DEF DebugInv
<1> QED  BY <1>1, <1>2, <1>3, <1>4, ClaimedType DEF HizReleases, Released

(* The uses a pin can be put to are told apart by their labels.            *)
LEMMA UsesDiffer ==
    /\ \A l1, l2, f1, f2 : Use(l1, f1) = Use(l2, f2) => l1 = l2 /\ f1 = f2
    /\ \A l, f : Use(l, f).label = l /\ Use(l, f).func = f
    /\ \A m : ModePurpose(m).label = "MODE" /\ ModePurpose(m).func \in {"IO", "MODE"}
<1>1. \A l, f : Use(l, f).label = l /\ Use(l, f).func = f  BY DEF Use
<1> QED  BY <1>1 DEF ModePurpose

-----------------------------------------------------------------------------
(* What the books say of one pin, and what each step makes of it.          *)
Agrees(p) ==
    /\ p \in pwm_active  <=> pin[p] = Use("PWM", "PWM")
    /\ p \in freq_active <=> pin[p] = Use("FREQ", "FREQ")
    /\ p \in aux_active  <=> pin[p] = Use("AUX", "IO")
    /\ p \in ModePins[mode] \ Debug <=> pin[p] = ModePurpose(mode)
    /\ p \in Debug <=> pin[p] = Use("DEBUG", "DEBUG")
    /\ pin[p].label # "BIN"

LEMMA OrderStep ==
    ASSUME IInv, KeptInOrder, [Next]_vars
    PROVE  KeptInOrder'
<1> SUFFICES ASSUME orderly' PROVE (OneFunction /\ outputs = pwm_active \cup aux_active)'
  BY DEF KeptInOrder
<1> USE PinsAssumption
<1>1. pin \in [Pins -> Uses]  BY DEF IInv, TypeOK, Uses, Labels, Funcs
<1>2. \A p \in Pins : p \in Debug <=> pin[p].func = "DEBUG"
  BY UsesDiffer DEF IInv, DebugInv
<1>3. ASSUME \A p \in Pins : Agrees(p)' PROVE OneFunction'
  BY <1>3 DEF Agrees, OneFunction
<1>4. ASSUME orderly
      PROVE  (\A p \in Pins : Agrees(p)) /\ outputs = pwm_active \cup aux_active
  BY <1>4 DEF KeptInOrder, OneFunction, Agrees
<1>5. /\ Free \in Uses /\ Use("AUX", "IO") \in Uses /\ Use("PWM", "PWM") \in Uses
      /\ Use("FREQ", "FREQ") \in Uses /\ \A m : ModePurpose(m) \in Uses
  BY FreeType, UseType DEF Labels, Funcs, ModePurpose
<1>6. /\ Free.label = "none" /\ Free.func = "IO"
      /\ Use("AUX", "IO").label = "AUX" /\ Use("AUX", "IO").func = "IO"
      /\ Use("PWM", "PWM").label = "PWM" /\ Use("PWM", "PWM").func = "PWM"
      /\ Use("FREQ", "FREQ").label = "FREQ" /\ Use("FREQ", "FREQ").func = "FREQ"
      /\ Use("DEBUG", "DEBUG").label = "DEBUG" /\ Use("DEBUG", "DEBUG").func = "DEBUG"
      /\ \A m : ModePurpose(m).label = "MODE"
  BY FreeType, UsesDiffer
(* A command that touches one pin leaves what the books say of the others. *)
<1>7. ASSUME NEW p \in Pins, NEW use \in Uses, orderly, mode' = mode,
             p \notin Debug, pin' = Claimed(pin, {p}, use), Agrees(p)',
             pwm_active' \ {p} = pwm_active \ {p}, freq_active' \ {p} = freq_active \ {p},
             aux_active' \ {p} = aux_active \ {p}
      PROVE  OneFunction'
  <2>1. ASSUME NEW q \in Pins, q # p PROVE Agrees(q)'
    <3>1. pin'[q] = pin[q]  BY <1>1, <1>7, <2>1, ClaimedType
    <3>2. /\ q \in pwm_active' <=> q \in pwm_active
          /\ q \in freq_active' <=> q \in freq_active
          /\ q \in aux_active' <=> q \in aux_active
      BY <1>7, <2>1
    <3> QED  BY <1>4, <1>7, <3>1, <3>2 DEF Agrees, ModePurpose
  <2> QED  BY <1>3, <1>7, <2>1
<1>8. ASSUME NEW p \in Pins, NEW use \in Uses, p \notin Debug, pin' = Claimed(pin, {p}, use)
      PROVE  pin'[p] = use
  BY <1>1, <1>2, <1>8, ClaimedType
<1>9. ASSUME NEW p \in Pins, orderly, pin[p].label \in {"none", "AUX"} \/ p \in aux_active
      PROVE  p \notin Debug /\ p \notin pwm_active /\ p \notin freq_active /\ p \notin ModePins[mode]
  BY <1>4, <1>6, <1>9 DEF Agrees
<1>10. ASSUME NEW p \in Pins, orderly, Auxiliary(p),
              p \notin Debug /\ p \notin pwm_active /\ p \notin freq_active /\ p \notin ModePins[mode]
       PROVE  OneFunction' /\ outputs' = pwm_active' \cup aux_active'
  <2>1. pin'[p] = Use("AUX", "IO")  BY <1>5, <1>8, <1>10 DEF Auxiliary
  <2>2. Agrees(p)'  BY <2>1, <1>6, <1>10 DEF Auxiliary, Agrees, ModePurpose
  <2>3. OneFunction'  BY <2>2, <1>5, <1>7, <1>10 DEF Auxiliary
  <2> QED  BY <2>3, <1>4, <1>10 DEF Auxiliary
<1>11. ASSUME NEW p \in Pins, orderly, AuxInput(p),
              p \notin Debug /\ p \notin pwm_active /\ p \notin freq_active /\ p \notin ModePins[mode]
       PROVE  OneFunction' /\ outputs' = pwm_active' \cup aux_active'
  <2>1. pin'[p] = Free  BY <1>5, <1>8, <1>11 DEF AuxInput, Released
  <2>2. Agrees(p)'  BY <2>1, <1>6, <1>11 DEF AuxInput, Agrees, ModePurpose
  <2>3. OneFunction'  BY <2>2, <1>5, <1>7, <1>11 DEF AuxInput, Released
  <2> QED  BY <2>3, <1>4, <1>11 DEF AuxInput
<1>12. ASSUME NEW p \in Pins, AuxCommand(p)
       PROVE  OneFunction' /\ outputs' = pwm_active' \cup aux_active'
  <2>1. orderly  BY <1>12 DEF AuxCommand
  <2> QED  BY <2>1, <1>9, <1>10, <1>11, <1>12 DEF AuxCommand, AuxAvailable
<1>13. ASSUME NEW p \in Pins, AuxSyntax(p)
       PROVE  OneFunction' /\ outputs' = pwm_active' \cup aux_active'
  <2>1. orderly /\ pin[p].label # "MODE" /\ pin[p].func = "IO"
    BY <1>13, Zenon DEF AuxSyntax
  <2>2. p \notin Debug /\ p \notin pwm_active /\ p \notin freq_active /\ p \notin ModePins[mode]
    BY <2>1, <1>2, <1>4, <1>6 DEF Agrees
  <2> QED  BY <2>1, <2>2, <1>10, <1>11, <1>13 DEF AuxSyntax
<1>14. ASSUME NEW p \in Pins, PwmEnable(p)
       PROVE  OneFunction' /\ outputs' = pwm_active' \cup aux_active'
  <2>1. orderly /\ pin[p].label = "none"  BY <1>14 DEF PwmEnable, PwmAvailable
  <2>2. /\ p \notin Debug /\ p \notin freq_active /\ p \notin aux_active
        /\ p \notin ModePins[mode]
    BY <2>1, <1>4, <1>6 DEF Agrees
  <2>3. pin'[p] = Use("PWM", "PWM")  BY <2>2, <1>5, <1>8, <1>14 DEF PwmEnable
  <2>4. Agrees(p)'  BY <2>2, <2>3, <1>6, <1>14 DEF PwmEnable, Agrees, ModePurpose
  <2>5. OneFunction'  BY <2>1, <2>2, <2>4, <1>5, <1>7, <1>14 DEF PwmEnable
  <2> QED  BY <2>1, <2>5, <1>4, <1>14 DEF PwmEnable
<1>15. ASSUME NEW p \in Pins, PwmDisable(p)
       PROVE  OneFunction' /\ outputs' = pwm_active' \cup aux_active'
  <2>1. orderly /\ p \in pwm_active  BY <1>15 DEF PwmDisable
  <2>2. /\ p \notin Debug /\ p \notin freq_active /\ p \notin aux_active
        /\ p \notin ModePins[mode]
    BY <2>1, <1>4, <1>6 DEF Agrees
  <2>3. pin'[p] = Free  BY <2>2, <1>5, <1>8, <1>15 DEF PwmDisable, Released
  <2>4. Agrees(p)'  BY <2>2, <2>3, <1>6, <1>15 DEF PwmDisable, Agrees, ModePurpose
  <2>5. OneFunction'  BY <2>1, <2>2, <2>4, <1>5, <1>7, <1>15 DEF PwmDisable, Released
  <2> QED  BY <2>1, <2>2, <2>5, <1>4, <1>15 DEF PwmDisable
<1>16. ASSUME NEW p \in Pins, FreqEnable(p)
       PROVE  OneFunction' /\ outputs' = pwm_active' \cup aux_active'
  <2>1. orderly /\ pin[p].label = "none"  BY <1>16 DEF FreqEnable, FreqAvailable
  <2>2. /\ p \notin Debug /\ p \notin pwm_active /\ p \notin aux_active
        /\ p \notin ModePins[mode]
    BY <2>1, <1>4, <1>6 DEF Agrees
  <2>3. pin'[p] = Use("FREQ", "FREQ")  BY <2>2, <1>5, <1>8, <1>16 DEF FreqEnable
  <2>4. Agrees(p)'  BY <2>2, <2>3, <1>6, <1>16 DEF FreqEnable, Agrees, ModePurpose
  <2>5. OneFunction'  BY <2>1, <2>2, <2>4, <1>5, <1>7, <1>16 DEF FreqEnable
  <2> QED  BY <2>1, <2>5, <1>4, <1>16 DEF FreqEnable, board
<1>17. ASSUME NEW p \in Pins, FreqDisable(p)
       PROVE  OneFunction' /\ outputs' = pwm_active' \cup aux_active'
  <2>1. orderly /\ p \in freq_active  BY <1>17 DEF FreqDisable
  <2>2. /\ p \notin Debug /\ p \notin pwm_active /\ p \notin aux_active
        /\ p \notin ModePins[mode]
    BY <2>1, <1>4, <1>6 DEF Agrees
  <2>3. pin'[p] = Free  BY <2>2, <1>5, <1>8, <1>17 DEF FreqDisable, Released
  <2>4. Agrees(p)'  BY <2>2, <2>3, <1>6, <1>17 DEF FreqDisable, Agrees, ModePurpose
  <2>5. OneFunction'  BY <2>1, <2>2, <2>4, <1>5, <1>7, <1>17 DEF FreqDisable, Released
  <2> QED  BY <2>1, <2>2, <2>5, <1>4, <1>17 DEF FreqDisable
<1>18. ASSUME DioWrite PROVE OneFunction' /\ outputs' = pwm_active' \cup aux_active'
  <2>1. orderly /\ mode = DIO /\ mode' = DIO  BY <1>18 DEF DioWrite
  <2>2. ASSUME NEW p \in Pins PROVE Agrees(p)'
    <3>1. CASE p \in DioPins
      <4>1. pin'[p] = Use("AUX", "IO")
        BY <3>1, <1>1, <1>5, <1>18, ClaimedType DEF DioWrite, DioPins
      <4>2. p \notin Debug /\ p \notin pwm_active /\ p \notin freq_active
        BY <3>1, <2>1, <1>2, <1>4, <1>6 DEF DioPins, Agrees
      <4> QED  BY <2>1, <3>1, <4>1, <4>2, <1>6, <1>18 DEF DioWrite, Agrees
    <3>2. CASE p \notin DioPins
      <4>1. pin'[p] = pin[p]  BY <3>2, <1>1, <1>5, <1>18, ClaimedType DEF DioWrite
      <4> QED  BY <2>1, <3>2, <4>1, <1>4, <1>18 DEF DioWrite, Agrees
    <3> QED  BY <3>1, <3>2
  <2> QED  BY <2>1, <2>2, <1>3, <1>4, <1>18 DEF DioWrite
<1>19. ASSUME NEW m \in Modes, ModeSwitch(m)
       PROVE  OneFunction' /\ outputs' = pwm_active' \cup aux_active'
  <2>1. /\ HizReleases \in [Pins -> Uses]
        /\ \A p \in Pins : HizReleases[p] = IF p \in Debug THEN Use("DEBUG", "DEBUG") ELSE Free
    BY HizReleasesAll DEF IInv
  <2>2. pwm_active' = {} /\ freq_active' = {} /\ aux_active' = {} /\ outputs' = {}
    BY <1>19 DEF ModeSwitch
  <2>3. ASSUME NEW p \in Pins PROVE Agrees(p)'
    <3>1. CASE SetUp(m)
      <4>1. pin'[p] = IF p \in ModePins[m] \ Debug THEN ModePurpose(m) ELSE HizReleases[p]
        BY <3>1, <2>1, <1>5, <1>6, ClaimedType DEF SetUp
      <4> QED  BY <4>1, <2>1, <2>2, <3>1, <1>6 DEF SetUp, Agrees
    <3>2. CASE FallBack
      BY <2>1, <2>2, <3>2, <1>6 DEF FallBack, Agrees
    <3> QED  BY <3>1, <3>2, <1>19 DEF ModeSwitch
  <2> QED  BY <2>2, <2>3, <1>3
<1>20. ASSUME NEW b \in Binmodes, BinmodeCommand(b)
       PROVE  OneFunction' /\ outputs' = pwm_active' \cup aux_active'
  <2>1. orderly /\ UNCHANGED <<mode, pin, outputs, active>>
    BY <1>20 DEF BinmodeCommand
  <2> QED  BY <2>1, <1>3, <1>4 DEF Agrees, active, ModePurpose
<1>21. ASSUME BinmodeExit PROVE FALSE
  BY <1>21 DEF BinmodeExit, IInv, LockedInv, Unlocked
<1>22. ASSUME Sniff PROVE FALSE  BY <1>22 DEF Sniff
<1>23. ASSUME Supply \/ UNCHANGED vars
       PROVE  OneFunction' /\ outputs' = pwm_active' \cup aux_active'
  BY <1>3, <1>4, <1>23 DEF Supply, vars, active, board, Agrees, ModePurpose
<1> QED
  BY <1>12, <1>13, <1>14, <1>15, <1>16, <1>17, <1>18, <1>19, <1>20, <1>21, <1>22, <1>23
     DEF Next

(* Since the last change of mode, a pin's label, its masks and the pins of *)
(* the mode tell the same, until a sniffer, the syntax or a binary mode    *)
(* strikes, as in run pins, for all boards.                                *)
THEOREM BooksAreKept == Spec => []KeptInOrder
<1>1. Init => KeptInOrder
  <2> SUFFICES ASSUME Init PROVE OneFunction /\ outputs = pwm_active \cup aux_active
    BY DEF KeptInOrder
  <2>1. ModePins[HIZ] = {}  BY PinsAssumption
  <2>2. \A p \in Pins : pin[p] = IF p \in Debug THEN Use("DEBUG", "DEBUG") ELSE Free
    BY DEF Init
  <2>3. OneFunction  BY <2>1, <2>2, FreeType, UsesDiffer DEF Init, OneFunction
  <2> QED  BY <2>3 DEF Init
<1>2. IInv /\ KeptInOrder /\ [Next]_vars => KeptInOrder'  BY OrderStep
<1>3. IInv /\ [Next]_vars => IInv'
  BY TypeStep, DebugStep, LockedStep DEF IInv
<1> QED  BY InitInv, <1>1, <1>2, <1>3, PTL DEF Spec

-----------------------------------------------------------------------------
LEMMA SafeStep ==
    ASSUME IInv, KeptInOrder, SafeUntilDisturbed, [Next]_vars
    PROVE  SafeUntilDisturbed'
<1> SUFFICES ASSUME orderly', mode' = HIZ
             PROVE  outputs' = {} /\ ~power' /\ ~pullups' /\ pwm_active' = {} /\ aux_active' = {}
  BY DEF SafeUntilDisturbed, HizIsSafe
<1> USE PinsAssumption DEF SafeUntilDisturbed, HizIsSafe
<1>1. ASSUME NEW p \in Pins, AuxCommand(p)
      PROVE  outputs' = {} /\ ~power' /\ ~pullups' /\ pwm_active' = {} /\ aux_active' = {}
  BY <1>1 DEF AuxCommand, Auxiliary, AuxInput
<1>2. ASSUME NEW p \in Pins, AuxSyntax(p)
      PROVE  outputs' = {} /\ ~power' /\ ~pullups' /\ pwm_active' = {} /\ aux_active' = {}
  <2>1. orderly /\ mode = HIZ  BY <1>2 DEF AuxSyntax, Auxiliary, AuxInput
  <2>2. p \notin outputs'  BY <1>2, <2>1, Zenon DEF AuxSyntax
  <2> QED  BY <1>2, <2>1, <2>2 DEF AuxSyntax, Auxiliary, AuxInput
<1>3. ASSUME NEW p \in Pins, FreqEnable(p) \/ FreqDisable(p)
      PROVE  outputs' = {} /\ ~power' /\ ~pullups' /\ pwm_active' = {} /\ aux_active' = {}
  <2>1. CASE FreqEnable(p)
    BY <2>1, Zenon DEF FreqEnable, board
  <2>2. CASE FreqDisable(p)
    <3>1. /\ mode' = mode /\ orderly' = orderly /\ outputs' = outputs \ {p}
          /\ UNCHANGED <<power, pullups, pwm_active, aux_active>>
      BY <2>2 DEF FreqDisable
    <3> QED  BY <3>1
  <2> QED  BY <1>3, <2>1, <2>2
<1>4. ASSUME DioWrite \/ Supply \/ Sniff \/ \E p \in Pins : PwmEnable(p) \/ PwmDisable(p)
      PROVE  FALSE
  BY <1>4 DEF DioWrite, Supply, Sniff, PwmEnable, PwmDisable
<1>5. ASSUME NEW m \in Modes, ModeSwitch(m)
      PROVE  outputs' = {} /\ ~power' /\ ~pullups' /\ pwm_active' = {} /\ aux_active' = {}
  BY <1>5 DEF ModeSwitch, SetUp, FallBack
<1>6. ASSUME NEW b \in Binmodes, BinmodeCommand(b)
      PROVE  outputs' = {} /\ ~power' /\ ~pullups' /\ pwm_active' = {} /\ aux_active' = {}
  BY <1>6 DEF BinmodeCommand, active
<1>7. ASSUME BinmodeExit PROVE FALSE
  BY <1>7 DEF BinmodeExit, IInv, LockedInv, Unlocked
<1>8. CASE UNCHANGED vars  BY <1>8 DEF vars, active, board
<1> QED  BY <1>1, <1>2, <1>3, <1>4, <1>5, <1>6, <1>7, <1>8 DEF Next

(* HiZ, reached by a change of mode or by one that failed, drives no pin   *)
(* and powers nothing until it is disturbed, as in run pins, for all       *)
(* boards.                                                                 *)
THEOREM HizStaysSafe == Spec => []SafeUntilDisturbed
<1>1. Init => SafeUntilDisturbed  BY DEF Init, SafeUntilDisturbed, HizIsSafe
<1>2. IInv /\ KeptInOrder /\ SafeUntilDisturbed /\ [Next]_vars => SafeUntilDisturbed'
  BY SafeStep
<1>3. IInv /\ [Next]_vars => IInv'
  BY TypeStep, DebugStep, LockedStep DEF IInv
<1> QED  BY InitInv, BooksAreKept, <1>1, <1>2, <1>3, PTL DEF Spec
=============================================================================
