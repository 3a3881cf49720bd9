--------------------------- MODULE OutageSchedule ---------------------------
(***************************************************************************)
(* What the simulated receiver promises about its long dropouts: the       *)
(* seconds it simulates are lit for LIT of them, dark for DARK, and so on  *)
(* for ever.                                                               *)
(***************************************************************************)
EXTENDS Naturals

CONSTANTS LIT, DARK

VARIABLES phase, run

outageVars == <<phase, run>>

OutageInit == phase = "lit" /\ run = 1

StayLit  == phase = "lit" /\ run < LIT /\ phase' = "lit" /\ run' = run + 1
GoDark   == phase = "lit" /\ run = LIT /\ phase' = "dark" /\ run' = 1
StayDark == phase = "dark" /\ run < DARK /\ phase' = "dark" /\ run' = run + 1
GoLit    == phase = "dark" /\ run = DARK /\ phase' = "lit" /\ run' = 1

OutageNext == StayLit \/ GoDark \/ StayDark \/ GoLit

OutageSpec == OutageInit /\ [][OutageNext]_outageVars
=============================================================================
