----------------------------- MODULE Satellites -----------------------------
(***************************************************************************)
(* The simulated satellite list of gpssim.c: satarray, totalsats and       *)
(* flt_fixtype, and the two functions that may change them,                *)
(* clear_satellites and sim_satellites.  sim_satellites draws a target     *)
(* number of satellites and then draws slots at random, one per turn of    *)
(* its two while loops, until the list has that many; each turn is a step  *)
(* here.  A slot that holds a satellite is a member of satarray; its ID is *)
(* its own position, so nothing else about it is kept.                     *)
(***************************************************************************)
EXTENDS Naturals, FiniteSets

CONSTANTS
    Slots,    \* positions of satarray (0..11 in the code)
    PAST,     \* the position just past the last one
    PERFECT,  \* PERFECT_SAT_FIXES is defined
    SCALED    \* random_index is the MinGW/Arduino one, which scales by RAND_MAX

MaxSats == 6

ASSUME SatellitesAssumption ==
    /\ IsFiniteSet(Slots)
    /\ Cardinality(Slots) \in Nat
    /\ Cardinality(Slots) >= MaxSats
    /\ PAST \notin Slots
    /\ PERFECT \in BOOLEAN
    /\ SCALED \in BOOLEAN

VARIABLES
    satarray,   \* the slots in use
    totalsats,  \* the number of satellites the code believes are in the list
    fixtype,    \* flt_fixtype: 1 no fix, 2 two-dimensional, 3 three-dimensional
    numsats,    \* sim_satellites's target, kept after it returns
    dop,        \* the three dilutions, one member of 0..6 per row of the switch
    simpc,      \* "idle", or "adjust" inside sim_satellites's loops
    listAtCall  \* history: the list the running call was made on

satVars == <<satarray, totalsats, fixtype, numsats, dop, simpc, listAtCall>>

(***************************************************************************)
(* random_index(range) is documented to return 0..range-1.  The Linux      *)
(* version does; the other one returns range itself when rand() returns    *)
(* RAND_MAX.                                                               *)
(***************************************************************************)
RandomIndex(range) == IF SCALED THEN 0..range ELSE 0..(range - 1)

RandomSlot == IF SCALED THEN Slots \cup {PAST} ELSE Slots

(* mutant: the no-fix draw leaves one satellite *)
NumSatsOfLow(randval) == IF randval = 0 THEN 1 ELSE IF randval \in 1..6 THEN 3 ELSE 5

(* The number of satellites and the fix type that a draw of 0..49 selects. *)
NumSatsOf(randval) ==
    IF randval = 0 /\ ~PERFECT THEN 2
    ELSE IF randval \in 1..6    THEN 3
    ELSE IF randval \in 17..39  THEN 5
    ELSE IF randval \in 40..49  THEN 6
    ELSE 4

FixTypeOf(randval) ==
    IF randval = 0 /\ ~PERFECT THEN 1
    ELSE IF randval \in 1..6    THEN 2
    ELSE 3

(* sprintf(satarray[randval],"%02d",randval): an ID is its own position. *)
SatId(slot) == slot

(* The row of the dilution switch: the counts it names, or its default, 0. *)
Dilution(n) == IF n \in 3..6 THEN n ELSE 0

NoDilution == 0

-----------------------------------------------------------------------------
SatInit ==
    /\ satarray = {}
    /\ totalsats = 0
    /\ fixtype = 1
    /\ numsats = 0
    /\ dop = NoDilution
    /\ simpc = "idle"
    /\ listAtCall = {}

(* mutant: the count survives *)
ClearSatellitesKeepsCount ==
    /\ satarray' = {}
    /\ fixtype' = 1
    /\ UNCHANGED totalsats

ClearSatellites ==
    /\ satarray' = {}
    /\ totalsats' = 0
    /\ fixtype' = 1

ClearDilutions == dop' = NoDilution

(***************************************************************************)
(* sim_satellites up to its loops, called on the list `list' that counts   *)
(* `total'.  forcenum is stored in numsats and overwritten by the next     *)
(* assignment, so it selects nothing.                                      *)
(***************************************************************************)
BeginSim(forcenum, list, total) ==
    /\ simpc = "idle"
    /\ simpc' = "adjust"
    /\ listAtCall' = list
    /\ \E randval \in RandomIndex(50) :
          IF total > MaxSats \/ NumSatsOf(randval) > MaxSats
          THEN numsats' = 0 /\ ClearSatellites
          ELSE /\ numsats' = NumSatsOf(randval)
               /\ fixtype' = FixTypeOf(randval)
               /\ satarray' = list
               /\ totalsats' = total

(* mutant: totalsats-- is missing *)
DeleteSatUncounted ==
    /\ simpc = "adjust"
    /\ numsats < totalsats
    /\ \E slot \in satarray : satarray' = satarray \ {slot}
    /\ UNCHANGED <<totalsats, fixtype, numsats, dop, simpc, listAtCall>>

(***************************************************************************)
(* One turn of the first loop that finds a slot in use, and of the second  *)
(* that finds one empty; a turn that finds the other changes nothing.  The *)
(* byte past the array may read as either, and the slot it stands for is   *)
(* then counted although it is in no list.                                 *)
(***************************************************************************)
DeleteSat ==
    /\ simpc = "adjust"
    /\ numsats < totalsats
    /\ \E slot \in RandomSlot :
          /\ slot \in satarray \cup {PAST}
          /\ satarray' = satarray \ {slot}
    /\ totalsats' = totalsats - 1
    /\ UNCHANGED <<fixtype, numsats, dop, simpc, listAtCall>>

AddSat ==
    /\ simpc = "adjust"
    /\ numsats > totalsats
    /\ \E slot \in RandomSlot :
          /\ slot \notin satarray
          /\ satarray' = satarray \cup ({slot} \cap Slots)
    /\ totalsats' = totalsats + 1
    /\ UNCHANGED <<fixtype, numsats, dop, simpc, listAtCall>>

(* The loops are done: the dilutions are set and totalsats is returned. *)
EndSim ==
    /\ simpc = "adjust"
    /\ numsats = totalsats
    /\ dop' = Dilution(numsats)
    /\ simpc' = "idle"
    /\ listAtCall' = {}
    /\ UNCHANGED <<satarray, totalsats, fixtype, numsats>>

-----------------------------------------------------------------------------
(* The component on its own: any caller may clear or re-draw the list. *)
CallClear ==
    /\ simpc = "idle"
    /\ ClearSatellites
    /\ ClearDilutions
    /\ UNCHANGED <<numsats, simpc, listAtCall>>

CallSim ==
    /\ \E forcenum \in {0, 3, 4} : BeginSim(forcenum, satarray, totalsats)
    /\ UNCHANGED dop

SatNext == CallClear \/ CallSim \/ DeleteSat \/ AddSat \/ EndSim

SatFairness ==
    /\ WF_satVars(DeleteSat)
    /\ WF_satVars(AddSat)
    /\ WF_satVars(EndSim)

SatSpec == SatInit /\ [][SatNext]_satVars /\ SatFairness

-----------------------------------------------------------------------------
(* Every variable keeps its type; the two counts stay in 0..6, as the      *)
(* note at the head of sim_satellites demands.                             *)
SatTypeOK ==
    /\ satarray \in SUBSET Slots
    /\ totalsats \in 0..MaxSats
    /\ fixtype \in 1..3
    /\ numsats \in 0..MaxSats
    /\ dop \in 0..MaxSats
    /\ simpc \in {"idle", "adjust"}
    /\ listAtCall \in SUBSET Slots

(* totalsats is the number of slots in use, between any two turns of the   *)
(* loops: GGA prints the count and GSA prints the slots.                   *)
CountMatchesList == totalsats = Cardinality(satarray)

(* Whenever no call is running, the fix type and the dilutions are the     *)
(* ones the number of satellites in the list supports.                     *)
FixMatchesCount ==
    simpc = "idle" =>
        /\ fixtype = 1 <=> totalsats < 3
        /\ fixtype = 2 <=> totalsats = 3
        /\ dop = Dilution(totalsats)

(* A call never trades one satellite for another: at every moment of it    *)
(* the list is the one it was called on with satellites only removed or    *)
(* only added.                                                             *)
ListOnlyShrinksOrGrows ==
    simpc = "adjust" => satarray \subseteq listAtCall \/ listAtCall \subseteq satarray

Choice == INSTANCE SatChoice WITH
    visible <- IF simpc = "idle" THEN satarray ELSE listAtCall,
    fix <- IF simpc = "idle" THEN fixtype
           ELSE IF Cardinality(listAtCall) < 3 THEN 1
           ELSE IF Cardinality(listAtCall) = 3 THEN 2 ELSE 3

(* A call of sim_satellites, all of its draws included, is one re-choice   *)
(* of the visible set, which only loses or only gains satellites and gets  *)
(* the fix type its size supports.                                         *)
ImplementsChoice == Choice!ChoiceSpec

(* Every call of sim_satellites returns: its random draws hit a usable     *)
(* slot sooner or later.                                                   *)
SimReturns == (simpc = "adjust") ~> (simpc = "idle")

-----------------------------------------------------------------------------
(* What comments of the source say, and the code does not do. *)

(* random_index "returns index 0 to range-1" (gpssim.c:1377): a turn that  *)
(* changes the count draws a position of the array, and changes the list.  *)
EveryCountedDrawIsASlot == [][totalsats' # totalsats => satarray' # satarray]_satVars
=============================================================================
