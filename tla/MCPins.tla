------------------------------- MODULE MCPins -------------------------------
(* A board of five pins, the last one with the debug UART.                 *)
EXTENDS Pins

ByMode(spi, i2c, ir) ==
    [m \in Modes |-> CASE m = "spi" -> spi [] m \in {"i2c", "usbpd"} -> i2c [] m = "ir" -> ir
                       [] OTHER -> {}]

MCModePins     == ByMode({2}, {0, 1}, {1, 3})
MCSniffedPins  == ByMode({0, 1, 3}, {0, 1, 2, 3}, {})
MCSniffOutputs == ByMode({}, {2, 3}, {})
MCBinPins      == [b \in Binmodes |-> IF b = "irman" THEN {1} ELSE {}]

=============================================================================
