---------------------------- MODULE DropoutCycle ----------------------------
(***************************************************************************)
(* The three counters of gpssim.c that decide, once per simulated second,  *)
(* whether the satellites stay as they are, are drawn again, or are taken  *)
(* away for a long dropout: flt_stablect, flt_dropoutct and flt_cyclect.   *)
(* What the decision does to the satellite list is in Satellites; the two  *)
(* meet in ProcessScript.                                                  *)
(***************************************************************************)
EXTENDS Integers

CONSTANTS
    STABLE,   \* STABLE_SAT_SECONDS
    DROPOUT,  \* DROPOUT_SAT_SECONDS
    CYCLES,   \* DROPOUT_CYCLES
    DROPOUTS, \* the dropout code is compiled in (PERFECT_SAT_FIXES undefined)
    RUNCAP    \* bound on the history counter `run', beyond any stretch

ASSUME DropoutAssumption ==
    /\ STABLE \in Nat \ {0}
    /\ DROPOUT \in Nat \ {0, 1}
    /\ CYCLES \in Nat \ {0, 1}
    /\ DROPOUTS \in BOOLEAN
    /\ RUNCAP \in Nat
    /\ RUNCAP > (CYCLES - 1) * STABLE + 1
    /\ RUNCAP >= DROPOUT

VARIABLES
    stablect,   \* seconds since the list was last drawn
    dropoutct,  \* seconds of the running dropout
    cyclect,    \* draws since the last dropout; 0 during one
    phase,      \* history: "dark" if the last second was a dropout's, else "lit"
    run         \* history: the seconds of this phase so far, up to RUNCAP

cycleVars == <<stablect, dropoutct, cyclect, phase, run>>

(* open_script.  The flight's very first second, which sends nothing and   *)
(* advances no counter, is the first lit one.                              *)
CycleInit ==
    /\ stablect = 0
    /\ dropoutct = 0
    /\ cyclect = 1
    /\ phase = "lit"
    /\ run = 1

Shown(p) ==
    /\ phase' = p
    /\ run' = IF p # phase THEN 1 ELSE IF run < RUNCAP THEN run + 1 ELSE run

InDropout == DROPOUTS /\ cyclect = 0

-----------------------------------------------------------------------------
(* A second inside the dropout: the list is cleared, again and again. *)
KeepDropout ==
    /\ InDropout
    /\ dropoutct + 1 < DROPOUT
    /\ dropoutct' = dropoutct + 1
    /\ UNCHANGED <<stablect, cyclect>>
    /\ Shown("dark")

(* mutant: flt_dropoutct = 0 is missing *)
LeaveDropoutNoReset ==
    /\ InDropout
    /\ dropoutct + 1 >= DROPOUT
    /\ cyclect' = cyclect + 1
    /\ UNCHANGED <<stablect, dropoutct>>
    /\ Shown("lit")

(* mutant: the dropout is timed with STABLE_SAT_SECONDS *)
LeaveDropoutEarly ==
    /\ InDropout
    /\ dropoutct + 1 >= STABLE
    /\ dropoutct' = 0
    /\ cyclect' = cyclect + 1
    /\ UNCHANGED stablect
    /\ Shown("lit")

(* The second that ends it: a list is drawn before the group is sent. *)
LeaveDropout ==
    /\ InDropout
    /\ dropoutct + 1 >= DROPOUT
    /\ dropoutct' = 0
    /\ cyclect' = cyclect + 1
    /\ UNCHANGED stablect
    /\ Shown("lit")

(* mutant: if (flt_stablect > STABLE_SAT_SECONDS) *)
KeepListTooLong ==
    /\ ~InDropout
    /\ stablect + 1 <= STABLE
    /\ stablect' = stablect + 1
    /\ UNCHANGED <<dropoutct, cyclect>>
    /\ Shown("lit")

KeepList ==
    /\ ~InDropout
    /\ stablect + 1 < STABLE
    /\ stablect' = stablect + 1
    /\ UNCHANGED <<dropoutct, cyclect>>
    /\ Shown("lit")

(* The list is drawn again; the draw that completes the cycles is still    *)
(* shown, and the dropout begins with the next second.                     *)
RedrawList ==
    /\ ~InDropout
    /\ stablect + 1 >= STABLE
    /\ stablect' = 0
    /\ cyclect' = IF ~DROPOUTS THEN cyclect
                  ELSE IF cyclect + 1 >= CYCLES THEN 0 ELSE cyclect + 1
    /\ UNCHANGED dropoutct
    /\ Shown("lit")

CycleNext == KeepDropout \/ LeaveDropout \/ KeepList \/ RedrawList

(* Some second always follows: the loop of process_script calls no wait    *)
(* here, so every enabled branch is taken.                                 *)
CycleSpec == CycleInit /\ [][CycleNext]_cycleVars /\ WF_cycleVars(CycleNext)

-----------------------------------------------------------------------------
CycleTypeOK ==
    /\ stablect \in 0..(STABLE - 1)
    /\ dropoutct \in 0..(DROPOUT - 1)
    /\ cyclect \in 0..(CYCLES - 1)
    /\ phase \in {"lit", "dark"}
    /\ run \in 1..RUNCAP

(* Where the counters stand says how long the receiver has been lit or     *)
(* dark: nothing else in the program may reset or advance them.            *)
CountersTellRun ==
    DROPOUTS =>
      \/ /\ cyclect = 0 /\ dropoutct > 0 /\ phase = "dark"
         /\ run = dropoutct /\ stablect = 0
      \/ /\ cyclect = 0 /\ dropoutct = 0 /\ phase = "lit"
         /\ run = (CYCLES - 1) * STABLE + 1 /\ stablect = 0
      \/ /\ cyclect > 0 /\ dropoutct = 0 /\ phase = "lit"
         /\ run = (cyclect - 1) * STABLE + stablect + 1

Outages == INSTANCE OutageSchedule WITH
    LIT <- (CYCLES - 1) * STABLE + 1, DARK <- DROPOUT - 1

(* The three counters together keep the schedule of OutageSchedule: the    *)
(* dark stretch is one second shorter than DROPOUT_SAT_SECONDS, the lit    *)
(* one has CYCLES-1 draws of STABLE seconds and the second before them.    *)
KeepsSchedule == Outages!OutageSpec

(* "at least one dropout in 6 simulated hours exceeds 10 minutes"          *)
(* (gpssim.c:2850), in seconds: each dropout is longer than ten minutes,   *)
(* and a lit stretch with the dropouts on both sides of it fits in six     *)
(* hours, so that any six hours hold a whole dropout.                      *)
LongDropoutEverySixHours ==
    [][ /\ phase = "dark" /\ phase' = "lit" => run > 600
        /\ phase = "lit" /\ phase' = "dark" => run + 2 * (DROPOUT - 1) <= 21600 ]_cycleVars

(* The dropouts never stop coming. *)
DropoutsRecur == []<>(phase = "dark")
=============================================================================
