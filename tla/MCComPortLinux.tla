--------------------------- MODULE MCComPortLinux ---------------------------
(* Values of ComPortLinux's constants for TLC. *)
EXTENDS ComPortLinux, TLC

CR == 13
LF == 10
OneCharacterLines == {<<LF>>}
CarriageReturnLineFeed == <<CR, LF>>

(* The bits of c_cflag that the six rates of GPSSIM stand for on Linux. *)
TermiosBits ==
    2400 :> {0, 1, 3} @@ 4800 :> {2, 3} @@ 9600 :> {0, 2, 3} @@
    19200 :> {1, 2, 3} @@ 38400 :> {0, 1, 2, 3} @@ 57600 :> {0, 12}
RatesOfTheRun == [r \in Rates |-> TermiosBits[r]]
=============================================================================
