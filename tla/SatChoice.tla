----------------------------- MODULE SatChoice -----------------------------
(***************************************************************************)
(* What the receiver promises about the satellites it shows: the set of    *)
(* visible satellites is either lost altogether or re-chosen as a whole,   *)
(* and a re-choice only loses satellites or only gains some.  The fix type *)
(* is a function of how many there are.  Satellites implements this: its   *)
(* slot-by-slot loops are one Rechoose.                                    *)
(***************************************************************************)
EXTENDS Naturals, FiniteSets

CONSTANTS Slots, PERFECT

VARIABLES visible, fix

choiceVars == <<visible, fix>>

FixSupportedBy(n) == IF n < 3 THEN 1 ELSE IF n = 3 THEN 2 ELSE 3

(* Two satellites, too few for a fix, are shown unless fixes are perfect. *)
Counts == (IF PERFECT THEN 3 ELSE 2)..6

ChoiceInit == visible = {} /\ fix = 1

Lose == visible' = {} /\ fix' = 1

Rechoose ==
    /\ visible' \in SUBSET Slots
    /\ Cardinality(visible') \in Counts
    /\ visible \subseteq visible' \/ visible' \subseteq visible
    /\ fix' = FixSupportedBy(Cardinality(visible'))

ChoiceSpec == ChoiceInit /\ [][Lose \/ Rechoose]_choiceVars
=============================================================================
