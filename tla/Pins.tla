-------------------------------- MODULE Pins --------------------------------
(***************************************************************************)
(* Who uses an IO pin, and the change of the mode.  system_config.c keeps  *)
(* a label and a purpose for each pin, and a mask for each of the          *)
(* functions PWM, frequency measurement and auxiliary pin; modes, commands,*)
(* bus syntax and binary modes claim pins and release them, each in its    *)
(* own way.  ui_mode.c changes the mode and goes back to HiZ when the new  *)
(* one cannot be set up.  All of this is done by core 0, one command after *)
(* the other; a command that refuses, or whose prompt is cancelled, leaves *)
(* the state alone and is no step here.                                    *)
(*                                                                         *)
(* Left out: the level of an output, the buffers that a mode switches on   *)
(* its own pins, voltage and current (see Psu), and what a host does over  *)
(* BPIO or the legacy protocol.                                            *)
(***************************************************************************)
EXTENDS Integers, FiniteSets

CONSTANTS Pins,
          Debug,         \* pins of the debug UART
          NoPwm,         \* pins 0 and 1 of boards with BP_HW_PSU_PWM_IO_BUG
          Modes, HIZ, DIO,
          ModePins,      \* the pins a mode claims
          IoModes,       \* modes that claim them with purpose BP_PIN_IO (infrared)
          PowerModes,    \* modes whose setup_exc turns the supply on
          FailingModes,  \* modes whose setup_exc may fail
          InitModes,     \* modes whose cleanup calls bio_init
          SniffedPins,   \* the pins the mode's sniffer borrows, {} if it has none
          SniffOutputs,  \* those among them it drives; then it tears the mode down, too
          Binmodes, NoBinmode,
          BinPins,       \* the pins a binary mode claims
          ResetBinmodes, \* lock_terminal and reset_to_hiz; the other ones touch no pin
          PowerBinmodes, \* psu_en_voltage > 0
          ExitBinmodes   \* button_to_exit

ASSUME PinsAssumption ==
    /\ Pins \subseteq Nat /\ Debug \cup NoPwm \subseteq Pins
    /\ {HIZ, DIO} \cup IoModes \cup PowerModes \cup FailingModes \cup InitModes \subseteq Modes
    /\ HIZ # DIO /\ HIZ \notin PowerModes \cup FailingModes
    /\ {ModePins, SniffedPins, SniffOutputs} \subseteq [Modes -> SUBSET Pins]
    /\ ModePins[HIZ] = {} /\ ModePins[DIO] = {} /\ SniffedPins[HIZ] = {}
    /\ BinPins \in [Binmodes -> SUBSET Pins]
    /\ NoBinmode \in Binmodes \ ResetBinmodes /\ ResetBinmodes \subseteq Binmodes
    /\ PowerBinmodes \cup ExitBinmodes \subseteq ResetBinmodes
    /\ \A b \in Binmodes \ ResetBinmodes : BinPins[b] = {}

VARIABLES
    mode,                                 \* system_config.mode
    pin,                                  \* pin_labels and pin_func of each pin
    pwm_active, freq_active, aux_active,
    outputs,                              \* pins that a command has made outputs
    power, pullups,
    binmode,                              \* binmode_select
    orderly                               \* all since the last change of mode kept the books

active == <<pwm_active, freq_active, aux_active>>
board  == <<outputs, power, pullups>>
vars   == <<mode, pin, active, board, binmode, orderly>>

Use(label, func) == [label |-> label, func |-> func]
Free == Use("none", "IO")

Init ==
    /\ mode = HIZ
    /\ pin = [p \in Pins |-> IF p \in Debug THEN Use("DEBUG", "DEBUG") ELSE Free]
    /\ pwm_active = {} /\ freq_active = {} /\ aux_active = {}
    /\ outputs = {} /\ power = FALSE /\ pullups = FALSE
    /\ binmode = NoBinmode /\ orderly = TRUE

-----------------------------------------------------------------------------
(* Plausible slips: each of them breaks a property below.                  *)
FreqAsideOfPwm(p) == p % 2 = 1 /\ pin[p].label = "none" /\ p \notin pwm_active
OnePinTooMany == (0..Cardinality(Pins)) \ Debug
HizKeepsLabels == [p \in Pins |-> IF p \in ModePins[mode] \ Debug THEN Use("none", "IO") ELSE pin[p]]
FallBackInName == mode' = HIZ /\ pin' = [p \in Pins |-> IF p \in Debug THEN pin[p] ELSE Use("none", "IO")]
                  /\ power' = TRUE

-----------------------------------------------------------------------------
(* system_pin_update_purpose_and_label, for each pin of S in turn.         *)
Claimed(u, S, use) ==
    [p \in Pins |-> IF p \in S /\ u[p].func # "DEBUG" THEN use ELSE u[p]]

Released(u, S) == Claimed(u, S, Free)

(* The pins of one slice: PWM and frequency measurement need all of it.    *)
SameSlice(p, q) == p \div 2 = q \div 2

SliceFree(p, bits) == \A q \in bits : ~SameSlice(p, q)

-----------------------------------------------------------------------------
(* Commands of the terminal, unless a binary mode has locked it.           *)
Unlocked == binmode \notin ResetBinmodes

(* a, A and @, and their like in bus syntax.  The command goes by the      *)
(* label, and leaves the pins of others alone; the syntax goes by the      *)
(* purpose, and so takes the pins of a mode that claims them as IO.        *)
AuxAvailable(p) == pin[p].label = "none" \/ p \in aux_active

Auxiliary(p) ==
    /\ pin' = Claimed(pin, {p}, Use("AUX", "IO"))
    /\ aux_active' = aux_active \cup {p}
    /\ outputs' = outputs \cup {p}
    /\ UNCHANGED <<mode, pwm_active, freq_active, power, pullups, binmode>>

AuxInput(p) ==
    /\ pin' = Released(pin, {p})
    /\ aux_active' = aux_active \ {p}
    /\ outputs' = outputs \ {p}
    /\ UNCHANGED <<mode, pwm_active, freq_active, power, pullups, binmode>>

AuxCommand(p) ==
    /\ Unlocked /\ AuxAvailable(p)
    /\ (mode # HIZ /\ Auxiliary(p)) \/ AuxInput(p)
    /\ UNCHANGED orderly

AuxSyntax(p) ==
    /\ Unlocked /\ pin[p].func = "IO"
    /\ Auxiliary(p) \/ AuxInput(p)
    /\ orderly' = (orderly /\ pin[p].label # "MODE" /\ ~(mode = HIZ /\ p \in outputs'))

(* A number written in mode DIO sets every pin that nobody uses otherwise. *)
DioPins == {p \in Pins : pin[p].func = "IO"}

DioWrite ==
    /\ Unlocked /\ mode = DIO
    /\ pin' = Claimed(pin, DioPins, Use("AUX", "IO"))
    /\ aux_active' = aux_active \cup DioPins
    /\ outputs' = outputs \cup DioPins
    /\ UNCHANGED <<mode, pwm_active, freq_active, power, pullups, binmode, orderly>>

(* G and g *)
PwmAvailable(p) ==
    /\ pin[p].label = "none" /\ p \notin NoPwm
    /\ SliceFree(p, freq_active) /\ SliceFree(p, pwm_active)

PwmEnable(p) ==
    /\ Unlocked /\ mode # HIZ /\ PwmAvailable(p)
    /\ pin' = Claimed(pin, {p}, Use("PWM", "PWM"))
    /\ pwm_active' = pwm_active \cup {p}
    /\ outputs' = outputs \cup {p}
    /\ UNCHANGED <<mode, freq_active, aux_active, power, pullups, binmode, orderly>>

PwmDisable(p) ==
    /\ Unlocked /\ mode # HIZ /\ p \in pwm_active
    /\ pin' = Released(pin, {p})
    /\ pwm_active' = pwm_active \ {p}
    /\ outputs' = outputs \ {p}
    /\ UNCHANGED <<mode, freq_active, aux_active, power, pullups, binmode, orderly>>

(* F and f; only channel B of a slice, an odd pin, can count.              *)
FreqAvailable(p) ==
    /\ p % 2 = 1 /\ pin[p].label = "none" /\ p \notin NoPwm
    /\ SliceFree(p, pwm_active)

FreqEnable(p) ==
    /\ Unlocked /\ FreqAvailable(p)
    /\ pin' = Claimed(pin, {p}, Use("FREQ", "FREQ"))
    /\ freq_active' = freq_active \cup {p}
    /\ UNCHANGED <<mode, pwm_active, aux_active, board, binmode, orderly>>

FreqDisable(p) ==
    /\ Unlocked /\ p \in freq_active
    /\ pin' = Released(pin, {p})
    /\ freq_active' = freq_active \ {p}
    /\ outputs' = outputs \ {p}
    /\ UNCHANGED <<mode, pwm_active, aux_active, power, pullups, binmode, orderly>>

(* W, w, P and p                                                           *)
Supply ==
    /\ Unlocked /\ mode # HIZ
    /\ \/ power' \in BOOLEAN /\ UNCHANGED pullups
       \/ pullups' \in BOOLEAN /\ UNCHANGED power
    /\ UNCHANGED <<mode, pin, active, outputs, binmode, orderly>>

(* The sniffers of I2C, 2WIRE and SPI claim pins without asking, and       *)
(* release them at the end, when the first two set up their mode again.    *)
(* What they drove stays an output.                                        *)
SniffReleases == Released(pin, SniffedPins[mode])

Sniff ==
    /\ Unlocked /\ SniffedPins[mode] # {}
    /\ IF SniffOutputs[mode] # {}
         THEN /\ pin' = Claimed(SniffReleases, ModePins[mode], Use("MODE", "MODE"))
              /\ outputs' = SniffOutputs[mode]
         ELSE pin' = SniffReleases /\ UNCHANGED outputs
    /\ orderly' = FALSE
    /\ UNCHANGED <<mode, active, power, pullups, binmode>>

-----------------------------------------------------------------------------
(* ui_mode_enable_args, after its prompts: the cleanup of the old mode,    *)
(* hiz_setup_exec, setup_exc of the new one, and when that fails           *)
(* hiz_setup_exec again.                                                   *)
Cleaned == Released(pin, ModePins[mode])

HizReleases == Released(Cleaned, Pins)

ModePurpose(m) == Use("MODE", IF m \in IoModes THEN "IO" ELSE "MODE")

SetUp(m) ==
    /\ mode' = m
    /\ pin' = Claimed(HizReleases, ModePins[m], ModePurpose(m))
    /\ power' = (m \in PowerModes)

FallBack ==
    /\ mode' = HIZ
    /\ pin' = HizReleases
    /\ power' = FALSE

ModeSwitch(m) ==
    /\ Unlocked
    /\ SetUp(m) \/ (m \in FailingModes /\ FallBack)
    /\ pwm_active' = {} /\ freq_active' = {} /\ aux_active' = {}
    /\ outputs' = {} /\ pullups' = FALSE
    /\ orderly' = TRUE
    /\ UNCHANGED binmode

-----------------------------------------------------------------------------
(* cmd_binmode_handler: binmode_cleanup of the old one, binmode_setup of   *)
(* the new one.  reset_to_hiz cleans up the mode and selects HiZ, but      *)
(* calls its protocol_setup, which does nothing, and not its setup_exc.    *)
BinmodeCommand(b) ==
    /\ Unlocked
    /\ binmode' = b
    /\ IF b \in ResetBinmodes
         THEN /\ mode' = HIZ
              /\ pin' = Claimed(Cleaned, BinPins[b], Use("BIN", "IO"))
              /\ outputs' = IF mode \in InitModes THEN {} ELSE outputs
              /\ power' = (power \/ b \in PowerBinmodes)
              /\ orderly' = FALSE
         ELSE UNCHANGED <<mode, pin, outputs, power, orderly>>
    /\ UNCHANGED <<active, pullups>>

(* binmode_service with a key pressed                                      *)
BinmodeExit ==
    /\ binmode \in ExitBinmodes
    /\ binmode' = NoBinmode
    /\ pin' = Released(pin, BinPins[binmode])
    /\ power' = (power /\ binmode \notin PowerBinmodes)
    /\ mode' = HIZ
    /\ UNCHANGED <<active, outputs, pullups, orderly>>

-----------------------------------------------------------------------------
Next ==
    \/ \E p \in Pins :
          \/ AuxCommand(p) \/ AuxSyntax(p) \/ PwmEnable(p) \/ PwmDisable(p)
          \/ FreqEnable(p) \/ FreqDisable(p)
    \/ DioWrite \/ Supply \/ Sniff
    \/ \E m \in Modes : ModeSwitch(m)
    \/ \E b \in Binmodes : BinmodeCommand(b)
    \/ BinmodeExit

Spec == Init /\ [][Next]_vars

-----------------------------------------------------------------------------
TypeOK ==
    /\ mode \in Modes /\ binmode \in Binmodes
    /\ pin \in [Pins -> [label : {"none", "AUX", "PWM", "FREQ", "MODE", "BIN", "DEBUG"},
                         func : {"IO", "PWM", "FREQ", "MODE", "DEBUG"}]]
    /\ pwm_active \subseteq Pins /\ freq_active \subseteq Pins /\ aux_active \subseteq Pins
    /\ outputs \subseteq Pins
    /\ power \in BOOLEAN /\ pullups \in BOOLEAN /\ orderly \in BOOLEAN

(* Whatever the modes, sniffers and binary modes do to the labels, a slice *)
(* serves one purpose: two pins of it are never used for PWM, and none for *)
(* PWM while the other one, or itself, counts ("Cannot share PWM slice     *)
(* with frequency counter").                                               *)
SliceExclusive ==
    \A p \in pwm_active, q \in pwm_active \cup freq_active :
        SameSlice(p, q) => p = q /\ p \notin freq_active

(* "A single pin must be used for at most one function at a time": the     *)
(* label of a pin, its bits in the masks and the pins of the mode tell the *)
(* same.                                                                   *)
OneFunction ==
    \A p \in Pins :
        /\ p \in pwm_active  <=> pin[p] = Use("PWM", "PWM")
        /\ p \in freq_active <=> pin[p] = Use("FREQ", "FREQ")
        /\ p \in aux_active  <=> pin[p] = Use("AUX", "IO")
        /\ p \in ModePins[mode] \ Debug <=> pin[p] = ModePurpose(mode)
        /\ p \in Debug <=> pin[p] = Use("DEBUG", "DEBUG")
        /\ pin[p].label # "BIN"

(* "HiZ is a safe mode.  IO pins, power and pull-ups are disabled."        *)
HizIsSafe ==
    mode = HIZ => outputs = {} /\ ~power /\ ~pullups /\ pwm_active = {} /\ aux_active = {}

(* A change of mode, complete or failed half-way, puts everything in order,*)
(* whatever a sniffer, the syntax or a binary mode left behind, and it     *)
(* stays so until one of them strikes again.                               *)
KeptInOrder == orderly => OneFunction /\ outputs = pwm_active \cup aux_active

(* HiZ reached that way drives and powers nothing: every change of mode    *)
(* runs hiz_setup_exec, which releases every pin and clears aux_active     *)
(* (hiz.c:43-52).  The header of a_auxio.c says the opposite of auxiliary  *)
(* pins, line 12: "Preserves aux pins across mode changes".  No path of    *)
(* the code does that, and the formula states what the code does.          *)
SafeUntilDisturbed == orderly => HizIsSafe

=============================================================================
