------------------------ MODULE ProcessScript_proofs ------------------------
(***************************************************************************)
(* Proofs about a flight: first about its two parts, the satellite list    *)
(* and the dropout counters, then about whole flights, for every script,   *)
(* every array of at least MaxSats slots, both settings of                 *)
(* PERFECT_SAT_FIXES and every setting of the dropout constants.           *)
(***************************************************************************)
EXTENDS ProcessScript, FiniteSetTheorems, TLAPS

(* What a draw can select: two satellites only when fixes are imperfect,   *)
(* and the fix type the number supports.                                   *)
LEMMA DrawFacts ==
    ASSUME NEW randval \in 0..50
    PROVE  /\ NumSatsOf(randval) \in (IF PERFECT THEN 3 ELSE 2)..6
           /\ FixTypeOf(randval) = IF NumSatsOf(randval) < 3 THEN 1
                                   ELSE IF NumSatsOf(randval) = 3 THEN 2 ELSE 3
    BY SatellitesAssumption DEF NumSatsOf, FixTypeOf

(* Lists are finite, and one draw changes their size by one. *)
LEMMA ListSize ==
    ASSUME NEW list \in SUBSET Slots
    PROVE  /\ Cardinality(list) \in Nat
           /\ \A slot \in list : Cardinality(list \ {slot}) = Cardinality(list) - 1
           /\ \A slot \in Slots \ list : Cardinality(list \cup {slot}) = Cardinality(list) + 1
<1>1. IsFiniteSet(list)
    BY SatellitesAssumption, FS_Subset
<1>2. ASSUME NEW slot \in list
      PROVE  Cardinality(list \ {slot}) = Cardinality(list) - 1
    BY <1>1, FS_RemoveElement
<1>3. ASSUME NEW slot \in Slots \ list
      PROVE  Cardinality(list \cup {slot}) = Cardinality(list) + 1
    BY <1>1, FS_AddElement
<1> QED BY <1>1, <1>2, <1>3, FS_CardinalityType

LEMMA DrawRange == RandomIndex(50) \subseteq 0..50
    BY DEF RandomIndex

(* SatTypeOK is inductive on its own: the loops stop at numsats, which the *)
(* draw keeps within MaxSats.                                              *)
THEOREM TypeCorrect == SatSpec => []SatTypeOK
<1>1. SatInit => SatTypeOK
    BY DEF SatInit, SatTypeOK, MaxSats, NoDilution
<1>2. SatTypeOK /\ [SatNext]_satVars => SatTypeOK'
    <2> SUFFICES ASSUME SatTypeOK, [SatNext]_satVars PROVE SatTypeOK'
        OBVIOUS
    <2> USE DEF SatTypeOK, MaxSats
    <2>1. CASE CallClear
        BY <2>1 DEF CallClear, ClearSatellites, ClearDilutions, NoDilution
    <2>2. CASE CallSim
        <3>1. PICK forcenum \in {0, 3, 4} : BeginSim(forcenum, satarray, totalsats)
            BY <2>2 DEF CallSim
        <3>2. PICK randval \in RandomIndex(50) :
                 IF totalsats > MaxSats \/ NumSatsOf(randval) > MaxSats
                 THEN numsats' = 0 /\ ClearSatellites
                 ELSE /\ numsats' = NumSatsOf(randval)
                      /\ fixtype' = FixTypeOf(randval)
                      /\ satarray' = satarray
                      /\ totalsats' = totalsats
            BY <3>1 DEF BeginSim
        <3>3. /\ NumSatsOf(randval) \in 2..6
              /\ FixTypeOf(randval) \in 1..3
            BY DrawFacts, DrawRange
        <3>4. numsats' \in 0..6 /\ fixtype' \in 1..3 /\ totalsats' \in 0..6
              /\ satarray' \in SUBSET Slots
            BY <3>2, <3>3
        <3>5. dop' = dop /\ simpc' = "adjust" /\ listAtCall' = satarray
            BY <2>2, <3>1 DEF CallSim, BeginSim
        <3> QED BY <3>4, <3>5
    <2>3. CASE DeleteSat
        BY <2>3 DEF DeleteSat
    <2>4. CASE AddSat
        BY <2>4 DEF AddSat
    <2>5. CASE EndSim
        BY <2>5 DEF EndSim, Dilution
    <2>6. CASE UNCHANGED satVars
        BY <2>6 DEF satVars
    <2> QED BY <2>1, <2>2, <2>3, <2>4, <2>5, <2>6 DEF SatNext
<1> QED BY <1>1, <1>2, PTL DEF SatSpec

-----------------------------------------------------------------------------
(***************************************************************************)
(* The inductive invariant.  While a call runs the fix type is already the *)
(* one of its target, and the list has moved from the one it was called on *)
(* only in the direction of the target.  The count is the list's size only *)
(* if random_index stays inside the array.                                 *)
(***************************************************************************)
FixFor(n) == IF n < 3 THEN 1 ELSE IF n = 3 THEN 2 ELSE 3

Adjusting ==
    simpc = "adjust" =>
        /\ numsats \in (IF PERFECT THEN 3 ELSE 2)..6
        /\ fixtype = FixFor(numsats)
        /\ ListOnlyShrinksOrGrows
        /\ numsats < totalsats => satarray \subseteq listAtCall
        /\ numsats > totalsats => listAtCall \subseteq satarray

Idle == simpc = "idle" => fixtype = FixFor(totalsats) /\ dop = Dilution(totalsats)

Counted == ~SCALED => CountMatchesList

SatInv == SatTypeOK /\ Counted /\ Adjusting /\ Idle

(* A call made on any list that is counted right establishes it. *)
LEMMA BeginSimInv ==
    ASSUME NEW forcenum, NEW list \in SUBSET Slots, NEW total \in 0..MaxSats,
           ~SCALED => total = Cardinality(list),
           BeginSim(forcenum, list, total), dop' \in 0..MaxSats
    PROVE  SatInv'
<1> USE DEF MaxSats
<1>1. PICK randval \in RandomIndex(50) :
         IF total > MaxSats \/ NumSatsOf(randval) > MaxSats
         THEN numsats' = 0 /\ ClearSatellites
         ELSE /\ numsats' = NumSatsOf(randval)
              /\ fixtype' = FixTypeOf(randval)
              /\ satarray' = list
              /\ totalsats' = total
    BY DEF BeginSim
<1>2. /\ NumSatsOf(randval) \in (IF PERFECT THEN 3 ELSE 2)..6
      /\ FixTypeOf(randval) = FixFor(NumSatsOf(randval))
    BY DrawFacts, DrawRange DEF FixFor
<1>3. /\ numsats' \in (IF PERFECT THEN 3 ELSE 2)..6
      /\ fixtype' = FixFor(numsats')
      /\ satarray' = list /\ totalsats' = total
    BY <1>1, <1>2
<1>4. simpc' = "adjust" /\ listAtCall' = list
    BY DEF BeginSim
<1>5. SatTypeOK'
    BY <1>3, <1>4 DEF SatTypeOK, FixFor
<1>6. Counted'
    BY <1>3 DEF Counted, CountMatchesList
<1>7. Adjusting' /\ Idle'
    BY <1>3, <1>4 DEF Adjusting, Idle, ListOnlyShrinksOrGrows
<1> QED BY <1>5, <1>6, <1>7 DEF SatInv

LEMMA DeleteSatInv == SatInv /\ DeleteSat => SatInv'
<1> SUFFICES ASSUME SatInv, DeleteSat PROVE SatInv'
    OBVIOUS
<1> USE DEF SatInv, SatTypeOK, MaxSats
<1>1. PICK slot \in RandomSlot :
         slot \in satarray \cup {PAST} /\ satarray' = satarray \ {slot}
    BY DEF DeleteSat
<1>2. /\ simpc = "adjust" /\ simpc' = "adjust" /\ numsats < totalsats
      /\ totalsats' = totalsats - 1
      /\ UNCHANGED <<fixtype, numsats, dop, listAtCall>>
    BY DEF DeleteSat
<1>3. SatTypeOK'
    BY <1>1, <1>2
<1>4. Counted'
    <2>1. ~SCALED => slot \in satarray
        BY <1>1, SatellitesAssumption DEF RandomSlot
    <2> QED BY <2>1, <1>1, <1>2, ListSize DEF Counted, CountMatchesList
<1>5. Adjusting' /\ Idle'
    BY <1>1, <1>2 DEF Adjusting, Idle, ListOnlyShrinksOrGrows
<1> QED BY <1>3, <1>4, <1>5

LEMMA AddSatInv == SatInv /\ AddSat => SatInv'
<1> SUFFICES ASSUME SatInv, AddSat PROVE SatInv'
    OBVIOUS
<1> USE DEF SatInv, SatTypeOK, MaxSats
<1>1. PICK slot \in RandomSlot :
         slot \notin satarray /\ satarray' = satarray \cup ({slot} \cap Slots)
    BY DEF AddSat
<1>2. /\ simpc = "adjust" /\ simpc' = "adjust" /\ numsats > totalsats
      /\ totalsats' = totalsats + 1
      /\ UNCHANGED <<fixtype, numsats, dop, listAtCall>>
    BY DEF AddSat
<1>3. SatTypeOK'
    BY <1>1, <1>2
<1>4. Counted'
    <2>1. ~SCALED => slot \in Slots \ satarray /\ satarray' = satarray \cup {slot}
        BY <1>1 DEF RandomSlot
    <2> QED BY <2>1, <1>2, ListSize DEF Counted, CountMatchesList
<1>5. Adjusting' /\ Idle'
    BY <1>1, <1>2 DEF Adjusting, Idle, ListOnlyShrinksOrGrows
<1> QED BY <1>3, <1>4, <1>5

LEMMA EndSimInv == SatInv /\ EndSim => SatInv'
    BY DEF SatInv, SatTypeOK, MaxSats, EndSim, Dilution, Counted, CountMatchesList,
           Adjusting, Idle

LEMMA ClearedInv ==
    ASSUME SatTypeOK, simpc = "idle", ClearSatellites, ClearDilutions,
           UNCHANGED <<numsats, simpc, listAtCall>>
    PROVE  SatInv'
<1>1. Cardinality({}) = 0
    BY FS_EmptySet
<1> QED BY <1>1 DEF SatInv, SatTypeOK, MaxSats, ClearSatellites, ClearDilutions, NoDilution,
               Counted, CountMatchesList, Adjusting, Idle, FixFor, Dilution

LEMMA SatInitInv == SatInit => SatInv
<1>1. Cardinality({}) = 0
    BY FS_EmptySet
<1> QED BY <1>1 DEF SatInit, SatInv, SatTypeOK, MaxSats, NoDilution, Counted,
               CountMatchesList, Adjusting, Idle, FixFor, Dilution

LEMMA SatUnchangedInv == SatInv /\ UNCHANGED satVars => SatInv'
    BY DEF SatInv, SatTypeOK, satVars, Counted, CountMatchesList, Adjusting, Idle,
           ListOnlyShrinksOrGrows

LEMMA SatStepInv == SatInv /\ [SatNext]_satVars => SatInv'
<1> SUFFICES ASSUME SatInv, [SatNext]_satVars PROVE SatInv'
    OBVIOUS
<1>0. SatTypeOK
    BY DEF SatInv
<1>1. CASE CallClear
    BY <1>0, <1>1, ClearedInv DEF CallClear
<1>2. CASE CallSim
    <2>1. PICK forcenum \in {0, 3, 4} : BeginSim(forcenum, satarray, totalsats)
        BY <1>2 DEF CallSim
    <2>2. dop' \in 0..MaxSats /\ satarray \in SUBSET Slots /\ totalsats \in 0..MaxSats
        BY <1>0, <1>2 DEF CallSim, SatTypeOK
    <2>3. ~SCALED => totalsats = Cardinality(satarray)
        BY DEF SatInv, Counted, CountMatchesList
    <2> QED BY <2>1, <2>2, <2>3, BeginSimInv
<1>3. CASE DeleteSat
    BY <1>3, DeleteSatInv
<1>4. CASE AddSat
    BY <1>4, AddSatInv
<1>5. CASE EndSim
    BY <1>5, EndSimInv
<1>6. CASE UNCHANGED satVars
    BY <1>6, SatUnchangedInv
<1> QED BY <1>1, <1>2, <1>3, <1>4, <1>5, <1>6 DEF SatNext

THEOREM SatInvariant == SatSpec => []SatInv
    BY SatInitInv, SatStepInv, PTL DEF SatSpec

-----------------------------------------------------------------------------
(* The fix type and the dilutions are always those of the count, also with *)
(* the random_index that leaves the array.                                 *)
THEOREM FixCorrect == SatSpec => []FixMatchesCount
<1>1. SatInv => FixMatchesCount
    BY DEF SatInv, SatTypeOK, MaxSats, Idle, FixFor, FixMatchesCount
<1> QED BY <1>1, SatInvariant, PTL

(* A call only removes satellites or only adds them. *)
THEOREM OneDirection == SatSpec => []ListOnlyShrinksOrGrows
<1>1. SatInv => ListOnlyShrinksOrGrows
    BY DEF SatInv, Adjusting, ListOnlyShrinksOrGrows
<1> QED BY <1>1, SatInvariant, PTL

(* With a random_index that stays inside the array, totalsats counts the   *)
(* slots in use between any two turns of the loops.                        *)
THEOREM CountCorrect ==
    ASSUME ~SCALED PROVE SatSpec => []CountMatchesList
<1>1. SatInv => CountMatchesList
    BY DEF SatInv, Counted
<1> QED BY <1>1, SatInvariant, PTL

(* As long as a loop of sim_satellites runs there is a slot that its       *)
(* random draw can use: one to empty, or one to fill.                      *)
UsableSlot ==
    simpc = "adjust" =>
        /\ numsats < totalsats => \E slot \in RandomSlot : slot \in satarray \cup {PAST}
        /\ numsats > totalsats => \E slot \in RandomSlot : slot \notin satarray

TurnsLeft == IF numsats < totalsats THEN totalsats - numsats ELSE numsats - totalsats

(* A turn that uses a slot leaves fewer turns to do, and a call returns    *)
(* when none is left.                                                      *)
TurnsCountDown ==
    [][simpc = "adjust" =>
          IF simpc' = "adjust" THEN TurnsLeft' < TurnsLeft ELSE TurnsLeft = 0]_satVars

(* What SimReturns rests on beside the fairness of the draws: with either  *)
(* random_index the loops cannot be left without a usable slot, and at     *)
(* most MaxSats draws that hit one end them.                               *)
THEOREM SimConverges ==
    SatSpec => []UsableSlot /\ TurnsCountDown /\ [](TurnsLeft \in 0..MaxSats)
<1>1. SatInv => UsableSlot
    <2> SUFFICES ASSUME SatInv, simpc = "adjust" PROVE UsableSlot
        BY DEF UsableSlot
    <2> USE DEF SatInv, SatTypeOK, MaxSats
    <2>1. CASE SCALED
        <3>1. PAST \in RandomSlot /\ PAST \notin satarray
            BY <2>1, SatellitesAssumption DEF RandomSlot
        <3> QED BY <3>1 DEF UsableSlot
    <2>2. CASE ~SCALED
        <3>1. totalsats = Cardinality(satarray) /\ RandomSlot = Slots
            BY <2>2 DEF Counted, CountMatchesList, RandomSlot
        <3>2. numsats < totalsats => satarray # {}
            BY <3>1, FS_EmptySet
        <3>3. numsats > totalsats => satarray # Slots
            BY <3>1, SatellitesAssumption
        <3> QED BY <3>1, <3>2, <3>3 DEF UsableSlot
    <2> QED BY <2>1, <2>2
<1>2. SatInv /\ [SatNext]_satVars =>
          [simpc = "adjust" =>
              IF simpc' = "adjust" THEN TurnsLeft' < TurnsLeft ELSE TurnsLeft = 0]_satVars
    <2> SUFFICES ASSUME SatInv, SatNext, simpc = "adjust"
                 PROVE  IF simpc' = "adjust" THEN TurnsLeft' < TurnsLeft ELSE TurnsLeft = 0
        OBVIOUS
    <2>1. totalsats \in 0..6 /\ numsats \in 0..6
        BY DEF SatInv, SatTypeOK, MaxSats
    <2>2. CASE DeleteSat
        BY <2>1, <2>2 DEF DeleteSat, TurnsLeft
    <2>3. CASE AddSat
        BY <2>1, <2>3 DEF AddSat, TurnsLeft
    <2>4. CASE EndSim
        BY <2>1, <2>4 DEF EndSim, TurnsLeft
    <2>5. ~CallClear /\ ~CallSim
        BY DEF CallClear, CallSim, BeginSim
    <2> QED BY <2>2, <2>3, <2>4, <2>5 DEF SatNext
<1>3. SatInv => TurnsLeft \in 0..MaxSats
    BY DEF SatInv, SatTypeOK, MaxSats, TurnsLeft
<1> QED BY <1>1, <1>2, <1>3, SatInvariant, PTL DEF SatSpec, TurnsCountDown

(* The loops of sim_satellites implement an atomic re-choice of the        *)
(* visible set: every step is a Lose, a Rechoose or changes nothing that   *)
(* SatChoice sees.                                                         *)
THEOREM RefinesChoice ==
    ASSUME ~SCALED PROVE SatSpec => ImplementsChoice
<1> DEFINE seen  == IF simpc = "idle" THEN satarray ELSE listAtCall
           seenFix == IF simpc = "idle" THEN fixtype
                      ELSE IF Cardinality(listAtCall) < 3 THEN 1
                      ELSE IF Cardinality(listAtCall) = 3 THEN 2 ELSE 3
<1>1. SatInit => Choice!ChoiceInit
    BY DEF SatInit, Choice!ChoiceInit
<1>2. SatInv /\ SatInv' /\ [SatNext]_satVars =>
         [Choice!Lose \/ Choice!Rechoose]_(Choice!choiceVars)
    <2> SUFFICES ASSUME SatInv, SatInv', [SatNext]_satVars
                 PROVE  \/ Choice!Lose \/ Choice!Rechoose
                        \/ seen' = seen /\ seenFix' = seenFix
        BY DEF Choice!choiceVars
    <2> USE DEF SatInv, SatTypeOK
    <2>1. CASE CallClear
        BY <2>1 DEF CallClear, ClearSatellites, Choice!Lose
    <2>2. CASE CallSim
        <3>1. simpc = "idle" /\ simpc' = "adjust" /\ listAtCall' = satarray
            BY <2>2 DEF CallSim, BeginSim
        <3>2. fixtype = FixFor(Cardinality(satarray))
            BY <3>1 DEF Idle, Counted, CountMatchesList
        <3> QED BY <3>1, <3>2 DEF FixFor
    <2>3. CASE DeleteSat \/ AddSat
        BY <2>3 DEF DeleteSat, AddSat
    <2>4. CASE EndSim
        <3>1. /\ simpc = "adjust" /\ simpc' = "idle" /\ satarray' = satarray
              /\ fixtype' = fixtype /\ Cardinality(satarray) = numsats
            BY <2>4 DEF EndSim, Counted, CountMatchesList
        <3>2. /\ numsats \in (IF PERFECT THEN 3 ELSE 2)..6
              /\ fixtype = FixFor(numsats)
              /\ satarray \subseteq listAtCall \/ listAtCall \subseteq satarray
            BY <3>1 DEF Adjusting, ListOnlyShrinksOrGrows
        <3>3. Choice!Cardinality(satarray) = Cardinality(satarray)
            BY DEF Choice!Cardinality, Cardinality
        <3>4. Choice!Rechoose
            BY <3>1, <3>2, <3>3
            DEF Choice!Rechoose, Choice!Counts, Choice!FixSupportedBy, FixFor
        <3> QED BY <3>4
    <2>5. CASE UNCHANGED satVars
        BY <2>5 DEF satVars
    <2> QED BY <2>1, <2>2, <2>3, <2>4, <2>5 DEF SatNext
<1> QED BY <1>1, <1>2, SatInvariant, PTL DEF SatSpec, ImplementsChoice, Choice!ChoiceSpec

-----------------------------------------------------------------------------
(* The dropout counters. *)
LEMMA OneMoreDraw ==
    ASSUME NEW c \in Int, NEW s \in Int PROVE c * s = (c - 1) * s + s
    BY SMT

LEMMA DrawsInOrder ==
    ASSUME NEW a \in Int, NEW b \in Int, NEW s \in Nat, a <= b PROVE a * s <= b * s
<1>1. PICK d \in Nat : b = a + d
    <2>1. b - a \in Nat /\ b = a + (b - a)
        OBVIOUS
    <2> QED BY <2>1
<1>2. d * s \in Nat /\ (a + d) * s = a * s + d * s
    OBVIOUS
<1> QED BY <1>1, <1>2

(* The counters keep their ranges, and where they stand tells how long the *)
(* receiver has been lit or dark; together the two facts are inductive.    *)
CycleInv == CycleTypeOK /\ CountersTellRun

(* A lit stretch that goes on is shorter than the promised one. *)
LEMMA LitBound ==
    ASSUME CycleInv, DROPOUTS, ~InDropout
    PROVE  /\ phase = "lit"
           /\ run = (cyclect - 1) * STABLE + stablect + 1
           /\ (cyclect - 1) * STABLE \in Int
           /\ (cyclect - 1) * STABLE + STABLE <= (CYCLES - 1) * STABLE
<1> USE DropoutAssumption DEF CycleInv, CycleTypeOK
<1>1. phase = "lit" /\ run = (cyclect - 1) * STABLE + stablect + 1
    BY DEF CountersTellRun, InDropout
<1>2. cyclect * STABLE = (cyclect - 1) * STABLE + STABLE
    BY OneMoreDraw
<1>3. cyclect * STABLE <= (CYCLES - 1) * STABLE
    BY DrawsInOrder
<1> QED BY <1>1, <1>2, <1>3

LEMMA CycleInitInv == CycleInit => CycleInv
<1> SUFFICES ASSUME CycleInit PROVE CycleInv
    OBVIOUS
<1>1. (1 - 1) * STABLE = 0
    BY DropoutAssumption
<1> QED BY <1>1, DropoutAssumption DEF CycleInit, CycleInv, CycleTypeOK, CountersTellRun

LEMMA CycleStepInv == CycleInv /\ [CycleNext]_cycleVars => CycleInv'
<1> SUFFICES ASSUME CycleInv, [CycleNext]_cycleVars PROVE CycleInv'
    OBVIOUS
<1> DEFINE draws == (cyclect - 1) * STABLE
           total == (CYCLES - 1) * STABLE
<1> USE DropoutAssumption DEF CycleInv
<1>0. total \in Int /\ RUNCAP > total + 1
    OBVIOUS
<1>1. CASE KeepDropout
    <2>1. DROPOUTS /\ cyclect = 0
        BY <1>1 DEF KeepDropout, InDropout
    <2> QED BY <1>1, <2>1 DEF KeepDropout, Shown, CycleTypeOK, CountersTellRun
<1>2. CASE LeaveDropout
    <2>1. (1 - 1) * STABLE = 0
        OBVIOUS
    <2>2. cyclect = 0 /\ cyclect' = 1 /\ DROPOUTS
        BY <1>2 DEF LeaveDropout, InDropout
    <2> QED BY <1>2, <2>1, <2>2 DEF LeaveDropout, Shown, CycleTypeOK, CountersTellRun
<1>3. CASE KeepList
    <2>1. /\ ~InDropout /\ cyclect' = cyclect /\ dropoutct' = dropoutct
          /\ stablect' = stablect + 1 /\ stablect' \in 0..(STABLE - 1)
          /\ Shown("lit")
        BY <1>3 DEF KeepList, CycleTypeOK
    <2>2. CycleTypeOK'
        BY <2>1 DEF Shown, CycleTypeOK
    <2>3. ASSUME DROPOUTS PROVE CountersTellRun'
        <3>1. /\ phase = "lit" /\ run = draws + stablect + 1
              /\ draws \in Int /\ draws + STABLE <= total
            BY <2>1, <2>3, LitBound
        <3>2. cyclect > 0 /\ dropoutct = 0
            BY <2>1, <2>3 DEF InDropout, CountersTellRun, CycleTypeOK
        <3>3. phase' = "lit" /\ run' = draws + stablect' + 1
            <4> HIDE DEF draws, total
            <4> QED BY <1>0, <2>1, <3>1 DEF Shown, CycleTypeOK
        <3> QED BY <2>1, <3>2, <3>3 DEF CountersTellRun
    <2> QED BY <2>2, <2>3 DEF CountersTellRun
<1>4. CASE RedrawList
    <2>1. /\ ~InDropout /\ dropoutct' = dropoutct /\ stablect' = 0
          /\ stablect = STABLE - 1
          /\ cyclect' = IF ~DROPOUTS THEN cyclect
                        ELSE IF cyclect + 1 >= CYCLES THEN 0 ELSE cyclect + 1
          /\ Shown("lit")
        BY <1>4 DEF RedrawList, CycleTypeOK
    <2>2. CycleTypeOK'
        BY <2>1 DEF Shown, CycleTypeOK
    <2>3. ASSUME DROPOUTS PROVE CountersTellRun'
        <3>1. /\ phase = "lit" /\ run = draws + stablect + 1
              /\ draws \in Int /\ draws + STABLE <= total
            BY <2>1, <2>3, LitBound
        <3>2. cyclect > 0 /\ dropoutct = 0 /\ cyclect * STABLE = draws + STABLE
            BY <2>1, <2>3, OneMoreDraw DEF InDropout, CountersTellRun, CycleTypeOK
        <3>3. phase' = "lit" /\ run' = draws + STABLE + 1
            <4> HIDE DEF draws, total
            <4> QED BY <1>0, <2>1, <3>1 DEF Shown, CycleTypeOK
        <3>4. CASE cyclect + 1 >= CYCLES
            <4>1. cyclect' = 0 /\ cyclect = CYCLES - 1
                BY <2>1, <2>3, <3>4 DEF CycleTypeOK
            <4> QED BY <2>1, <3>2, <3>3, <4>1 DEF CountersTellRun
        <3>5. CASE ~(cyclect + 1 >= CYCLES)
            <4>1. cyclect' > 0 /\ cyclect' - 1 = cyclect
                BY <2>1, <2>3, <3>5 DEF CycleTypeOK
            <4>2. run' = (cyclect' - 1) * STABLE + stablect' + 1
                BY <2>1, <3>1, <3>2, <3>3, <4>1
            <4> QED BY <2>1, <3>2, <3>3, <4>1, <4>2 DEF CountersTellRun
        <3> QED BY <3>4, <3>5
    <2> QED BY <2>2, <2>3 DEF CountersTellRun
<1>5. CASE UNCHANGED cycleVars
    BY <1>5 DEF cycleVars, CycleTypeOK, CountersTellRun
<1> QED BY <1>1, <1>2, <1>3, <1>4, <1>5 DEF CycleNext

(* The counters never leave their ranges, and tell the length of the       *)
(* running stretch.                                                        *)
THEOREM CycleInvariant == CycleSpec => [](CycleTypeOK /\ CountersTellRun)
    BY CycleInitInv, CycleStepInv, PTL DEF CycleSpec, CycleInv

-----------------------------------------------------------------------------
(* Each second of the counters is a second of the abstract schedule. *)
LEMMA ScheduleStep ==
    ASSUME DROPOUTS
    PROVE  CycleInv /\ [CycleNext]_cycleVars => [Outages!OutageNext]_(Outages!outageVars)
<1> SUFFICES ASSUME CycleInv, [CycleNext]_cycleVars
             PROVE  Outages!OutageNext \/ UNCHANGED <<phase, run>>
    BY DEF Outages!outageVars
<1> DEFINE draws == (cyclect - 1) * STABLE
           total == (CYCLES - 1) * STABLE
<1> USE DropoutAssumption DEF CycleInv
<1>0. total \in Int /\ RUNCAP > total + 1
    OBVIOUS
<1>1. CASE KeepDropout
    <2>1. cyclect = 0 /\ dropoutct + 1 < DROPOUT /\ Shown("dark")
        BY <1>1 DEF KeepDropout, InDropout
    <2>2. CASE phase = "dark"
        <3>1. run < DROPOUT - 1 /\ phase' = "dark" /\ run' = run + 1
            BY <2>1, <2>2 DEF CountersTellRun, CycleTypeOK, Shown
        <3> QED BY <2>2, <3>1 DEF Outages!OutageNext, Outages!StayDark
    <2>3. CASE phase = "lit"
        <3>1. run = total + 1
            BY <2>1, <2>3 DEF CountersTellRun
        <3>2. phase' = "dark" /\ run' = 1
            BY <2>1, <2>3 DEF Shown
        <3> QED BY <2>3, <3>1, <3>2 DEF Outages!OutageNext, Outages!GoDark
    <2> QED BY <2>2, <2>3 DEF CycleTypeOK
<1>2. CASE LeaveDropout
    <2>1. cyclect = 0 /\ dropoutct + 1 >= DROPOUT /\ Shown("lit")
        BY <1>2 DEF LeaveDropout, InDropout
    <2>2. phase = "dark" /\ run = DROPOUT - 1
        BY <2>1 DEF CountersTellRun, CycleTypeOK
    <2>3. phase' = "lit" /\ run' = 1
        BY <2>1, <2>2 DEF Shown
    <2> QED BY <2>2, <2>3 DEF Outages!OutageNext, Outages!GoLit
<1>3. CASE KeepList \/ RedrawList
    <2>1. ~InDropout /\ Shown("lit")
        BY <1>3 DEF KeepList, RedrawList
    <2>2. /\ phase = "lit" /\ run = draws + stablect + 1
          /\ draws \in Int /\ draws + STABLE <= total
        BY <2>1, LitBound
    <2>3. run < total + 1
        <3> HIDE DEF draws, total
        <3> QED BY <1>0, <2>2 DEF CycleTypeOK
    <2>4. phase' = "lit" /\ run' = run + 1
        <3> HIDE DEF total
        <3> QED BY <1>0, <2>1, <2>2, <2>3 DEF Shown, CycleTypeOK
    <2> QED BY <2>2, <2>3, <2>4 DEF Outages!OutageNext, Outages!StayLit
<1>4. CASE UNCHANGED cycleVars
    BY <1>4 DEF cycleVars
<1> QED BY <1>1, <1>2, <1>3, <1>4 DEF CycleNext

(* The counters keep the schedule they are meant to: whatever the three    *)
(* constants, lit and dark stretches alternate with the promised lengths.  *)
THEOREM RefinesSchedule ==
    ASSUME DROPOUTS PROVE CycleSpec => KeepsSchedule
<1>1. CycleInit => Outages!OutageInit
    BY DEF CycleInit, Outages!OutageInit
<1> QED BY <1>1, CycleInitInv, CycleStepInv, ScheduleStep, PTL
        DEF CycleSpec, KeepsSchedule, Outages!OutageSpec

(* The promise of a long dropout in any six hours holds for every choice   *)
(* of the constants that leaves room for it, and so for the program's.     *)
THEOREM LongDropouts ==
    ASSUME DROPOUTS, DROPOUT - 1 > 600,
           (CYCLES - 1) * STABLE + 1 + 2 * (DROPOUT - 1) <= 21600
    PROVE  CycleSpec => LongDropoutEverySixHours
<1> DEFINE Promise == /\ phase = "dark" /\ phase' = "lit" => run > 600
                      /\ phase = "lit" /\ phase' = "dark" => run + 2 * (DROPOUT - 1) <= 21600
<1>1. CycleInv /\ [CycleNext]_cycleVars => [Promise]_cycleVars
    <2> SUFFICES ASSUME CycleInv, [CycleNext]_cycleVars PROVE Promise
        OBVIOUS
    <2>1. [Outages!OutageNext]_(Outages!outageVars)
        BY ScheduleStep
    <2>2. (CYCLES - 1) * STABLE \in Int /\ run \in Nat /\ DROPOUT \in Nat
        BY DropoutAssumption DEF CycleInv, CycleTypeOK
    <2> QED BY <2>1, <2>2 DEF Outages!OutageNext, Outages!outageVars, Outages!StayLit,
                Outages!GoDark, Outages!StayDark, Outages!GoLit
<1> QED BY <1>1, CycleInitInv, CycleStepInv, PTL DEF CycleSpec, LongDropoutEverySixHours

-----------------------------------------------------------------------------

(* What sim_satellites can leave behind. *)
Counts == (IF PERFECT THEN 3 ELSE 2)..6

Sending == pc \in {"rmc", "gga", "gsa"}

(* sim_satellites runs only where process_script calls it. *)
SimCalled == simpc = "adjust" => pc = "loop" \/ (pc = "rmc" /\ phase = "lit")

(* A lit second has a list that was drawn, and a dark one has none; between *)
(* two seconds the list is one that a stable second may show.              *)
ListForSecond ==
    simpc = "idle" =>
        /\ (pc = "loop" /\ ~InDropout) \/ (Sending /\ phase = "lit") =>
               totalsats \in Counts /\ (Fix => nsats = totalsats)
        /\ Sending /\ phase = "dark" => satarray = {} /\ totalsats = 0

DarkIsDropout == phase = "dark" => InDropout

(* A group in the making says what its sources will say until it is sent. *)
GroupSoFar ==
    /\ pc \in {"gga", "gsa"} => /\ rmc.status = IF Fix THEN "A" ELSE "V"
                               /\ rmc.time = IF rmc.blank THEN NoTime ELSE lsec
    /\ pc = "gsa" => /\ gga.quality = IF Fix THEN 1 ELSE 0
                     /\ gga.sats = IF Fix THEN totalsats ELSE 0

(* The group invariants depend on the count being the list's size. *)
GroupTells ==
    /\ ~SCALED => GroupAgrees /\ EmptyWhileDark
    /\ PerfectHasFix

(* Inside a segment the list in memory is the one last shown, until a draw *)
(* or a dropout changes it.                                                *)
ListShown ==
    /\ pc = "loop" /\ simpc = "adjust" => firstloop
    /\ pc = "loop" /\ firstloop => lsec = lastsec
    /\ pc = "loop" /\ simpc = "idle" /\ lsec > lastsec + 1 => gsa.prns = satarray
    /\ Sending => ~firstloop
    /\ Sending /\ lsec > lastsec + 1 /\ stablect # 0 =>
           simpc = "idle" /\ gsa.prns = satarray

ScriptInv ==
    /\ SatInv /\ CycleInv /\ ScriptTypeOK
    /\ SimCalled /\ ListForSecond /\ DarkIsDropout
    /\ GroupSoFar /\ GroupTells

InSegment == pc = "loop" \/ Sending

(* The clock of a flight: what has been sent where.  Between two calls of  *)
(* process_script every segment read is sent; inside one so are the ones   *)
(* before it and, after its first second, its seconds before lsec.         *)
SentBefore ==
    IF lsec <= lastsec + 1 THEN sentleg <= datapos - 2 /\ SentTo(datapos - 2)
    ELSE sentleg = datapos - 1 /\ sentsec = lsec - 1

ClockInv ==
    /\ sentleg >= 1 /\ sentleg <= datapos
    /\ firstpass => datapos = 1 /\ sentleg = 1 /\ pc \in {"next", "done"}
    /\ ~firstpass => /\ datapos >= 2 /\ nextsec = Waypoints[datapos - 1]
                     /\ pc \in {"next", "done"} => sentleg <= datapos - 1 /\ SentTo(datapos - 1)
    /\ InSegment => /\ datapos >= 3 /\ lastsec = Waypoints[datapos - 2]
                    /\ firstloop => pc = "loop" /\ lsec = lastsec
                    /\ ~firstloop => lsec > lastsec /\ lsec <= nextsec + 1
                    /\ SentBefore
    /\ Sending => lsec <= nextsec
    /\ pc = "done" => datapos = Len(Waypoints) + 1

-----------------------------------------------------------------------------
(* Every step of a flight is a second of the counters or leaves them be:   *)
(* a new segment neither restarts nor skips one.                           *)
LEMMA CountersInside == [Next]_vars => [CycleNext]_cycleVars
<1> SUFFICES ASSUME [Next]_vars PROVE CycleNext \/ UNCHANGED cycleVars
    OBVIOUS
<1>1. CASE EndScript \/ FirstWaypoint \/ StartSegment
    BY <1>1 DEF EndScript, FirstWaypoint, StartSegment
<1>2. CASE SimTurn \/ SimResult \/ EndSegment \/ FirstSecond
    BY <1>2 DEF SimTurn, SimResult, EndSegment, FirstSecond
<1>3. CASE DarkSecond \/ LastDarkSecond \/ StableSecond \/ RedrawSecond
    BY <1>3 DEF DarkSecond, LastDarkSecond, StableSecond, RedrawSecond, CycleNext
<1>4. CASE SendRMC \/ SendGGA \/ SendGSA
    BY <1>4 DEF SendRMC, SendGGA, SendGSA
<1>5. CASE UNCHANGED vars
    BY <1>5 DEF vars
<1> QED BY <1>1, <1>2, <1>3, <1>4, <1>5 DEF Next

(* The satellite list keeps its invariant in every flight. *)
LEMMA SatellitesInside ==
    ASSUME SatInv, [Next]_vars PROVE SatInv'
<1>0. SatTypeOK /\ (~SCALED => totalsats = Cardinality(satarray))
    BY DEF SatInv, Counted, CountMatchesList
<1>1. CASE StartSegment
    <2>1. BeginSim(4, {}, 0) /\ dop' = dop
        BY <1>1 DEF StartSegment
    <2>2. dop' \in 0..MaxSats /\ 0 \in 0..MaxSats /\ Cardinality({}) = 0
        BY <1>0, <2>1, FS_EmptySet DEF SatTypeOK, MaxSats
    <2> HIDE DEF MaxSats
    <2> QED BY <2>1, <2>2, BeginSimInv
<1>2. CASE LastDarkSecond
    <2>1. BeginSim(3, {}, 0) /\ dop' = 0
        BY <1>2 DEF LastDarkSecond, ClearDilutions, NoDilution
    <2>2. 0 \in 0..MaxSats /\ Cardinality({}) = 0
        BY FS_EmptySet DEF MaxSats
    <2> QED BY <2>1, <2>2, BeginSimInv
<1>3. CASE RedrawSecond
    <2>1. BeginSim(0, satarray, totalsats) /\ dop' = dop
        BY <1>3 DEF RedrawSecond
    <2>2. dop' \in 0..MaxSats /\ totalsats \in 0..MaxSats /\ satarray \in SUBSET Slots
        BY <1>0, <2>1 DEF SatTypeOK
    <2> QED BY <1>0, <2>1, <2>2, BeginSimInv
<1>4. CASE DarkSecond
    BY <1>0, <1>4, ClearedInv DEF DarkSecond, Second, At
<1>5. CASE SimTurn
    BY <1>5, DeleteSatInv, AddSatInv DEF SimTurn
<1>6. CASE SimResult
    BY <1>6, EndSimInv DEF SimResult
<1>7. CASE \/ EndScript \/ FirstWaypoint \/ EndSegment \/ FirstSecond \/ StableSecond
           \/ SendRMC \/ SendGGA \/ SendGSA \/ UNCHANGED vars
    <2>1. UNCHANGED satVars
        BY <1>7 DEF EndScript, FirstWaypoint, EndSegment, FirstSecond, StableSecond,
           SendRMC, SendGGA, SendGSA, vars
    <2> QED BY <2>1, SatUnchangedInv
<1> QED BY <1>1, <1>2, <1>3, <1>4, <1>5, <1>6, <1>7 DEF Next

(* Types of process_script's own variables. *)
LEMMA ScriptTypeStep ==
    ASSUME SatTypeOK, ScriptTypeOK, [Next]_vars PROVE ScriptTypeOK'
<1> USE ScriptAssumption DEF ScriptTypeOK, SatTypeOK, MaxSats
<1>1. CASE EndScript \/ EndSegment \/ FirstSecond
    <2>1. firstpass' \in BOOLEAN /\ firstloop' \in BOOLEAN
        BY <1>1, Zenon DEF EndScript, EndSegment, FirstSecond, callVars, loopVars
    <2>2. pc' \in {"next", "loop", "rmc", "gga", "gsa", "done"} /\ lsec' \in Nat
        BY <1>1 DEF EndScript, EndSegment, FirstSecond, loopVars
    <2>3. UNCHANGED <<datapos, lastsec, nextsec, nsats, rmc, gga, gsa, sentsec, sentleg>>
        BY <1>1 DEF EndScript, EndSegment, FirstSecond, callVars, sentences
    <2> QED BY <2>1, <2>2, <2>3
<1>2. CASE FirstWaypoint \/ StartSegment
    <2>1. firstpass' \in BOOLEAN /\ firstloop' \in BOOLEAN
        BY <1>2, Zenon DEF FirstWaypoint, StartSegment, ReadWaypoint, loopVars
    <2>2. /\ lastsec' = nextsec /\ nextsec' = Waypoints[datapos]
          /\ datapos' = datapos + 1
          /\ datapos \in 1..Len(Waypoints) /\ Waypoints[datapos] \in Nat
        BY <1>2 DEF FirstWaypoint, StartSegment, ReadWaypoint
    <2>3. lsec' \in Nat /\ pc' \in {"next", "loop", "rmc", "gga", "gsa", "done"}
        BY <1>2, <2>2 DEF FirstWaypoint, StartSegment, loopVars
    <2>4. UNCHANGED <<nsats, rmc, gga, gsa, sentsec, sentleg>>
        BY <1>2 DEF FirstWaypoint, StartSegment, sentences
    <2> QED BY <2>1, <2>2, <2>3, <2>4
<1>3. CASE SimTurn \/ UNCHANGED vars
    BY <1>3 DEF SimTurn, vars, scriptVars, callVars, loopVars, sentences
<1>4. CASE SimResult
    BY <1>4 DEF SimResult, callVars, loopVars, sentences
<1>5. CASE DarkSecond \/ LastDarkSecond \/ StableSecond \/ RedrawSecond
    <2>1. Second /\ nsats' \in 0..6
        BY <1>5 DEF DarkSecond, LastDarkSecond, StableSecond, RedrawSecond
    <2>2. firstpass' \in BOOLEAN /\ firstloop' \in BOOLEAN
        BY <2>1, Zenon DEF Second, callVars, loopVars
    <2>3. pc' = "rmc" /\ UNCHANGED <<datapos, lastsec, nextsec, lsec, rmc, gga, gsa, sentsec, sentleg>>
        BY <2>1 DEF Second, callVars, loopVars, sentences
    <2> QED BY <2>1, <2>2, <2>3
<1>6. CASE SendRMC
    BY <1>6 DEF SendRMC, callVars, loopVars, NoTime
<1>7. CASE SendGGA
    BY <1>7 DEF SendGGA, callVars, loopVars
<1>8. CASE SendGSA
    <2>1. {SatId(slot) : slot \in satarray} \in SUBSET Slots
        BY DEF SatId
    <2> QED BY <1>8, <2>1 DEF SendGSA, callVars
<1> QED BY <1>1, <1>2, <1>3, <1>4, <1>5, <1>6, <1>7, <1>8 DEF Next

(* sim_satellites ends on a count it may leave behind, and the second's     *)
(* branch decides which list a group is made from.                          *)
LEMMA SecondsStep ==
    ASSUME ScriptInv, SatInv', [Next]_vars
    PROVE  SimCalled' /\ ListForSecond' /\ DarkIsDropout'
<1>0. /\ SatTypeOK /\ ScriptTypeOK /\ CycleTypeOK
      /\ simpc = "adjust" => numsats \in Counts
    BY DEF ScriptInv, SatInv, Adjusting, Counts, CycleInv
<1> USE DEF ScriptInv, SimCalled, ListForSecond, DarkIsDropout, Sending, Fix
<1>1. CASE EndScript \/ FirstWaypoint
    BY <1>1 DEF EndScript, FirstWaypoint, At, satVars, cycleVars, InDropout
<1>2. CASE StartSegment
    BY <1>2 DEF StartSegment, BeginSim, cycleVars, InDropout
<1>3. CASE SimTurn
    BY <1>3 DEF SimTurn, DeleteSat, AddSat, scriptVars, cycleVars, InDropout
<1>4. CASE SimResult
    BY <1>0, <1>4 DEF SimResult, EndSim, cycleVars, InDropout
<1>5. CASE EndSegment \/ FirstSecond
    BY <1>5 DEF EndSegment, FirstSecond, At, satVars, cycleVars, InDropout
<1>6. CASE DarkSecond
    BY <1>6 DEF DarkSecond, Second, At, KeepDropout, Shown, ClearSatellites, InDropout
<1>7. CASE LastDarkSecond
    BY <1>7 DEF LastDarkSecond, Second, BeginSim, LeaveDropout, Shown
<1>8. CASE StableSecond
    BY <1>8 DEF StableSecond, Second, At, KeepList, Shown, satVars
<1>9. CASE RedrawSecond
    BY <1>9 DEF RedrawSecond, Second, BeginSim, RedrawList, Shown
<1>10. CASE SendRMC \/ SendGGA
    BY <1>10 DEF SendRMC, SendGGA, At, satVars, cycleVars, InDropout
<1>11. CASE SendGSA
    BY <1>0, <1>11 DEF SendGSA, At, satVars, cycleVars, InDropout, CycleTypeOK
<1>12. CASE UNCHANGED vars
    BY <1>12 DEF vars, satVars, cycleVars, scriptVars, InDropout
<1> QED BY <1>1, <1>2, <1>3, <1>4, <1>5, <1>6, <1>7, <1>8, <1>9, <1>10, <1>11, <1>12 DEF Next

LEMMA GroupSoFarStep ==
    ASSUME ScriptInv, [Next]_vars PROVE GroupSoFar'
<1> USE DEF ScriptInv, GroupSoFar, Fix
<1>0. SatTypeOK /\ ScriptTypeOK
    BY DEF SatInv
<1>1. CASE EndScript \/ FirstWaypoint \/ StartSegment \/ EndSegment \/ FirstSecond
    <2>1. pc' \in {"done", "next", "loop"}
        BY <1>1 DEF EndScript, FirstWaypoint, StartSegment, EndSegment, FirstSecond, At,
                    ReadWaypoint
    <2> QED BY <2>1
<1>2. CASE SimTurn \/ SimResult
    BY <1>2 DEF SimTurn, SimResult, DeleteSat, AddSat, EndSim, scriptVars, SimCalled
<1>3. CASE DarkSecond \/ LastDarkSecond \/ StableSecond \/ RedrawSecond
    BY <1>3 DEF DarkSecond, LastDarkSecond, StableSecond, RedrawSecond, Second
<1>4. CASE SendRMC
    BY <1>4 DEF SendRMC, satVars, loopVars
<1>5. CASE SendGGA
    <2>1. Fix => nsats = totalsats
        BY <1>0, <1>5 DEF SendGGA, At, ListForSecond, Sending, CycleInv, CycleTypeOK,
                          SatInv, Idle, FixFor
    <2>2. gga'.quality = (IF Fix THEN 1 ELSE 0) /\ gga'.sats = nsats' /\ pc' = "gsa"
        BY <1>5 DEF SendGGA
    <2>3. nsats' = IF Fix THEN nsats ELSE 0
        BY <1>5 DEF SendGGA
    <2>4. /\ fixtype' = fixtype /\ totalsats' = totalsats /\ rmc' = rmc /\ pc = "gga"
          /\ lsec' = lsec
        BY <1>5 DEF SendGGA, satVars, At, loopVars
    <2> QED BY <2>1, <2>2, <2>3, <2>4
<1>6. CASE SendGSA
    BY <1>6 DEF SendGSA
<1>7. CASE UNCHANGED vars
    BY <1>7 DEF vars, satVars, scriptVars, sentences, loopVars
<1> QED BY <1>1, <1>2, <1>3, <1>4, <1>5, <1>6, <1>7 DEF Next

(* The step that completes a group: GSA is built from the list the second  *)
(* was given, and the dilutions and the fix type are that list's.          *)
LEMMA GroupCompleted ==
    ASSUME ScriptInv, SendGSA PROVE GroupTells'
<1> USE DEF ScriptInv
<1>1. /\ pc = "gsa" /\ simpc = "idle" /\ phase' = phase
      /\ rmc' = rmc /\ gga' = gga /\ sentsec' = lsec
      /\ gsa' = [status |-> rmc.status, fix |-> fixtype, prns |-> satarray, dop |-> dop]
    <2>1. {SatId(slot) : slot \in satarray} = satarray
        BY DEF SatId
    <2> QED BY <2>1 DEF SendGSA, At, cycleVars
<1>2. /\ gsa'.status = rmc.status /\ gsa'.fix = fixtype
      /\ gsa'.prns = satarray /\ gsa'.dop = dop
    BY <1>1
<1>3. /\ phase = "lit" => totalsats \in Counts
      /\ phase = "dark" => satarray = {} /\ totalsats = 0
      /\ phase \in {"lit", "dark"} /\ totalsats \in 0..6 /\ fixtype \in 1..3
    BY <1>1 DEF ListForSecond, Sending, CycleInv, CycleTypeOK, SatInv, SatTypeOK, MaxSats
<1>4. /\ fixtype = FixFor(totalsats) /\ dop = Dilution(totalsats)
      /\ ~SCALED => totalsats = Cardinality(satarray)
    BY <1>1 DEF SatInv, Idle, Counted, CountMatchesList
<1>5. /\ rmc.status = IF fixtype # 1 THEN "A" ELSE "V"
      /\ gga.quality = IF fixtype # 1 THEN 1 ELSE 0
      /\ gga.sats = IF fixtype # 1 THEN totalsats ELSE 0
      /\ rmc.time = IF rmc.blank THEN NoTime ELSE lsec
    BY <1>1 DEF GroupSoFar, Fix
<1>6. ~SCALED => GroupAgrees'
    BY <1>1, <1>2, <1>3, <1>4, <1>5 DEF GroupAgrees, FixFor
<1>7. ~SCALED => EmptyWhileDark'
    <2>1. phase = "lit" /\ ~SCALED => satarray # {}
        BY <1>3, <1>4, FS_EmptySet DEF Counts
    <2> QED BY <1>1, <1>2, <1>3, <2>1 DEF EmptyWhileDark
<1>8. PerfectHasFix'
    <2>1. PERFECT => phase = "lit"
        BY <1>3, ScriptAssumption DEF DarkIsDropout, InDropout
    <2>2. PERFECT => fixtype # 1
        BY <1>3, <1>4, <2>1 DEF Counts, FixFor
    <2> QED BY <1>1, <1>5, <2>2 DEF PerfectHasFix
<1> QED BY <1>6, <1>7, <1>8 DEF GroupTells

LEMMA GroupTellsStep ==
    ASSUME ScriptInv, [Next]_vars PROVE GroupTells'
<1> USE DEF GroupTells, GroupAgrees, EmptyWhileDark, PerfectHasFix, GroupSent
<1>0. GroupTells
    BY DEF ScriptInv
<1>1. CASE \/ EndScript \/ FirstWaypoint \/ StartSegment \/ EndSegment \/ FirstSecond
           \/ SimTurn \/ SimResult \/ UNCHANGED vars
    <2>1. UNCHANGED <<rmc, gga, gsa, sentsec, phase>>
        BY <1>1 DEF EndScript, FirstWaypoint, StartSegment, EndSegment, FirstSecond,
                    SimTurn, SimResult, vars, scriptVars, sentences, cycleVars
    <2>2. pc' \in {"loop", "next", "done"} => pc \in {"loop", "next", "done"}
        BY <1>1 DEF EndScript, FirstWaypoint, StartSegment, EndSegment, FirstSecond, At,
                    ReadWaypoint, SimTurn, SimResult, vars, scriptVars, ScriptInv, ScriptTypeOK
    <2> QED BY <1>0, <2>1, <2>2
<1>2. CASE \/ DarkSecond \/ LastDarkSecond \/ StableSecond \/ RedrawSecond
           \/ SendRMC \/ SendGGA
    <2>1. pc' \in {"rmc", "gga", "gsa"}
        BY <1>2 DEF DarkSecond, LastDarkSecond, StableSecond, RedrawSecond, Second,
                    SendRMC, SendGGA
    <2> QED BY <2>1
<1>3. CASE SendGSA
    BY <1>3, GroupCompleted
<1> QED BY <1>1, <1>2, <1>3 DEF Next

LEMMA ScriptInitInv == Init => ScriptInv
<1> SUFFICES ASSUME Init PROVE ScriptInv
    OBVIOUS
<1>1. SatInv /\ CycleInv
    BY SatInitInv, CycleInitInv DEF Init
<1>2. ScriptTypeOK
    <2>1. firstpass \in BOOLEAN /\ firstloop \in BOOLEAN
        BY Zenon DEF Init
    <2> QED BY <2>1, ScriptAssumption DEF Init, ScriptTypeOK, MaxSats, NoDilution
<1>3. SimCalled /\ ListForSecond /\ DarkIsDropout
    BY DEF Init, SatInit, CycleInit, SimCalled, ListForSecond, DarkIsDropout, Sending
<1>4. GroupSoFar /\ GroupTells
    BY DEF Init, GroupSoFar, GroupTells, GroupAgrees, EmptyWhileDark, PerfectHasFix, GroupSent
<1> QED BY <1>1, <1>2, <1>3, <1>4 DEF ScriptInv

LEMMA ScriptStepInv == ScriptInv /\ [Next]_vars => ScriptInv'
<1> SUFFICES ASSUME ScriptInv, [Next]_vars PROVE ScriptInv'
    OBVIOUS
<1>1. SatInv /\ CycleInv /\ ScriptTypeOK /\ SatTypeOK
    BY DEF ScriptInv, SatInv
<1>2. SatInv'
    BY <1>1, SatellitesInside
<1>3. CycleInv'
    BY <1>1, CountersInside, CycleStepInv
<1>4. ScriptTypeOK'
    BY <1>1, ScriptTypeStep
<1>5. SimCalled' /\ ListForSecond' /\ DarkIsDropout'
    BY <1>2, SecondsStep
<1>6. GroupSoFar' /\ GroupTells'
    BY GroupSoFarStep, GroupTellsStep
<1> QED BY <1>2, <1>3, <1>4, <1>5, <1>6 DEF ScriptInv

THEOREM ScriptInvariant == Spec => []ScriptInv
    BY ScriptInitInv, ScriptStepInv, PTL DEF Spec

(* Types and bounds of every variable of a flight. *)
THEOREM ScriptTypeCorrect == Spec => []TypeOK
<1>1. ScriptInv => TypeOK
    BY DEF ScriptInv, SatInv, CycleInv, TypeOK
<1> QED BY <1>1, ScriptInvariant, PTL

(* The three sentences of every group agree, whatever the script and the   *)
(* constants, with a random_index that stays inside the array.             *)
THEOREM GroupsAgree ==
    ASSUME ~SCALED PROVE Spec => []GroupAgrees
<1>1. ScriptInv => GroupAgrees
    BY DEF ScriptInv, GroupTells
<1> QED BY <1>1, ScriptInvariant, PTL

(* Satellites are shown exactly outside the forced dropouts. *)
THEOREM DarkGroupsEmpty ==
    ASSUME ~SCALED PROVE Spec => []EmptyWhileDark
<1>1. ScriptInv => EmptyWhileDark
    BY DEF ScriptInv, GroupTells
<1> QED BY <1>1, ScriptInvariant, PTL

(* Built with PERFECT_SAT_FIXES, every group has a fix. *)
THEOREM PerfectFixes == Spec => []PerfectHasFix
<1>1. ScriptInv => PerfectHasFix
    BY DEF ScriptInv, GroupTells
<1> QED BY <1>1, ScriptInvariant, PTL

(* The schedule of the dropouts survives every segment boundary of every   *)
(* script: counted in the seconds of the flight, lit and dark stretches    *)
(* keep their lengths.                                                     *)
THEOREM FlightKeepsSchedule ==
    ASSUME DROPOUTS PROVE Spec => KeepsSchedule
<1>1. Init => Outages!OutageInit
    BY DEF Init, CycleInit, Outages!OutageInit
<1>2. ScriptInv /\ [Next]_vars => [Outages!OutageNext]_(Outages!outageVars)
    BY CountersInside, ScheduleStep DEF ScriptInv
<1> QED BY <1>1, <1>2, ScriptInvariant, PTL DEF Spec, KeepsSchedule, Outages!OutageSpec

-----------------------------------------------------------------------------
(* The list in memory and the list last shown. *)
LEMMA ListShownStep ==
    ASSUME ScriptInv, ListShown, [Next]_vars PROVE ListShown'
<1> USE DEF ListShown, Sending
<1>0. /\ ScriptTypeOK /\ SimCalled
      /\ InDropout => stablect = 0
    BY DEF ScriptInv, CycleInv, InDropout, CountersTellRun, CycleTypeOK
<1>1. CASE EndScript \/ FirstWaypoint \/ EndSegment
    <2>1. pc' \in {"next", "done"}
        BY <1>1 DEF EndScript, FirstWaypoint, EndSegment, ReadWaypoint, At
    <2> QED BY <2>1
<1>2. CASE StartSegment
    <2>1. pc' = "loop" /\ lsec' = lastsec' /\ simpc' = "adjust"
        BY <1>2 DEF StartSegment, BeginSim
    <2>2. firstloop'
        BY <1>2, Zenon DEF StartSegment
    <2>3. lsec' \in Nat
        BY <1>2, <1>0, ScriptAssumption DEF StartSegment, ReadWaypoint, ScriptTypeOK
    <2> QED BY <2>1, <2>2, <2>3
<1>3. CASE SimTurn \/ SimResult
    <2>1. /\ UNCHANGED <<pc, lsec, lastsec, gsa, stablect>>
          /\ simpc = "adjust"
        BY <1>3 DEF SimTurn, SimResult, DeleteSat, AddSat, EndSim, scriptVars, callVars,
                    loopVars, sentences, cycleVars
    <2>2. firstloop' = firstloop
        BY <1>3, Zenon DEF SimTurn, SimResult, scriptVars, loopVars
    <2>3. SimTurn => simpc' = "adjust"
        BY DEF SimTurn, DeleteSat, AddSat
    <2> QED BY <1>0, <1>3, <2>1, <2>2, <2>3 DEF ScriptTypeOK
<1>4. CASE FirstSecond
    <2>1. /\ pc = "loop" /\ simpc = "idle" /\ lsec' = lsec + 1
          /\ UNCHANGED <<pc, lastsec, gsa, simpc>>
        BY <1>4 DEF FirstSecond, At, callVars, satVars, sentences
    <2>2. firstloop /\ ~firstloop'
        BY <1>4, Zenon DEF FirstSecond
    <2> QED BY <1>0, <2>1, <2>2 DEF ScriptTypeOK
<1>5. CASE DarkSecond \/ LastDarkSecond \/ StableSecond \/ RedrawSecond
    <2>1. /\ pc = "loop" /\ simpc = "idle" /\ pc' = "rmc"
          /\ UNCHANGED <<lsec, lastsec, gsa>>
        BY <1>5 DEF DarkSecond, LastDarkSecond, StableSecond, RedrawSecond, Second, At,
                    callVars, loopVars, sentences
    <2>2. ~firstloop'
        BY <1>5, Zenon DEF DarkSecond, LastDarkSecond, StableSecond, RedrawSecond, Second,
                    loopVars
    <2>3. stablect' # 0 => StableSecond
        BY <1>0, <1>5 DEF DarkSecond, LastDarkSecond, RedrawSecond, KeepDropout,
                    LeaveDropout, RedrawList
    <2>4. StableSecond => satarray' = satarray /\ simpc' = "idle"
        BY <2>1 DEF StableSecond, satVars
    <2> QED BY <2>1, <2>2, <2>3, <2>4
<1>6. CASE SendRMC \/ SendGGA \/ UNCHANGED vars
    <2>1. UNCHANGED <<lsec, lastsec, gsa, satarray, simpc, stablect>>
        BY <1>6 DEF SendRMC, SendGGA, vars, scriptVars, satVars, callVars, loopVars,
                    sentences, cycleVars
    <2>2. firstloop' = firstloop
        BY <1>6, Zenon DEF SendRMC, SendGGA, vars, scriptVars, loopVars
    <2>3. (pc' = "loop" => pc = "loop") /\ (Sending' => Sending \/ pc' = pc)
        BY <1>6 DEF SendRMC, SendGGA, At, vars, scriptVars
    <2> QED BY <2>1, <2>2, <2>3
<1>7. CASE SendGSA
    <2>1. /\ pc = "gsa" /\ pc' = "loop" /\ simpc' = "idle"
          /\ gsa'.prns = {SatId(slot) : slot \in satarray} /\ satarray' = satarray
        BY <1>7 DEF SendGSA, At, satVars
    <2>2. ~firstloop'
        BY <1>7, <2>1, Zenon DEF SendGSA
    <2> QED BY <2>1, <2>2 DEF SatId
<1> QED BY <1>1, <1>2, <1>3, <1>4, <1>5, <1>6, <1>7 DEF Next

(* A sentence with other satellites, later than a segment's first second.  *)
LEMMA OtherListStep ==
    ASSUME ScriptInv, ListShown, Next, gsa'.prns # gsa.prns, lsec > lastsec + 1
    PROVE  stablect = 0
<1>1. SendGSA
    BY DEF Next, EndScript, FirstWaypoint, StartSegment, SimTurn, SimResult, EndSegment,
           FirstSecond, DarkSecond, LastDarkSecond, StableSecond, RedrawSecond, Second,
           SendRMC, SendGGA, scriptVars, sentences
<1>2. pc = "gsa" /\ gsa'.prns = {SatId(slot) : slot \in satarray}
    BY <1>1 DEF SendGSA, At
<1> QED BY <1>2 DEF SatId, ListShown, Sending

(* Within a segment the satellites shown change only where the counters    *)
(* make a draw or open or close a dropout.                                 *)
THEOREM ListStable == Spec => ListStableBetweenDraws
<1>1. Init => ListShown
    BY DEF Init, ListShown, Sending
<1>2. ScriptInv /\ ListShown /\ [Next]_vars =>
         [gsa'.prns # gsa.prns /\ lsec > lastsec + 1 => stablect = 0]_vars
    BY OtherListStep
<1>3. ScriptInv /\ ListShown /\ [Next]_vars => ListShown'
    BY ListShownStep
<1> QED BY <1>1, <1>2, <1>3, ScriptInvariant, PTL DEF Spec, ListStableBetweenDraws

-----------------------------------------------------------------------------
(* Where the clock of a flight stands, kept by every step. *)
LEMMA ClockStep ==
    ASSUME ScriptTypeOK, ClockInv, [Next]_vars PROVE ClockInv'
<1> USE ScriptAssumption DEF InSegment, Sending
<1>0. /\ Len(Waypoints) \in Nat
      /\ \A i \in 1..Len(Waypoints) : Waypoints[i] \in Nat
      /\ firstpass \in BOOLEAN /\ firstloop \in BOOLEAN
      /\ datapos \in 1..(Len(Waypoints) + 1) /\ sentleg \in Nat
      /\ lastsec \in Nat /\ nextsec \in Nat /\ lsec \in Nat
      /\ pc \in {"next", "loop", "rmc", "gga", "gsa", "done"}
    BY DEF ScriptTypeOK
<1>1. CASE EndScript
    <2>1. /\ pc = "next" /\ pc' = "done" /\ datapos > Len(Waypoints)
          /\ UNCHANGED <<datapos, lastsec, nextsec, lsec, sentsec, sentleg>>
        BY <1>1 DEF EndScript, At, callVars, loopVars, sentences
    <2>2. firstpass' = firstpass
        BY <1>1, Zenon DEF EndScript, callVars
    <2> QED BY <1>0, <2>1, <2>2 DEF ClockInv, SentTo
<1>2. CASE FirstWaypoint
    <2>1. /\ pc = "next" /\ pc' = "next" /\ datapos' = datapos + 1
          /\ nextsec' = Waypoints[datapos] /\ UNCHANGED <<sentsec, sentleg>>
          /\ datapos <= Len(Waypoints)
        BY <1>2 DEF FirstWaypoint, ReadWaypoint, At, sentences
    <2>2. firstpass /\ ~firstpass'
        BY <1>2, Zenon DEF FirstWaypoint, ReadWaypoint
    <2>3. datapos' = 2 /\ sentleg' = 1
        BY <2>1, <2>2 DEF ClockInv
    <2> QED BY <1>0, <2>1, <2>2, <2>3 DEF ClockInv, SentTo
<1>3. CASE StartSegment
    <2>1. /\ pc = "next" /\ pc' = "loop" /\ datapos' = datapos + 1
          /\ lastsec' = nextsec /\ nextsec' = Waypoints[datapos]
          /\ lsec' = lastsec' /\ datapos <= Len(Waypoints)
          /\ UNCHANGED <<sentsec, sentleg>>
        BY <1>3 DEF StartSegment, ReadWaypoint, At, sentences
    <2>2. ~firstpass /\ ~firstpass' /\ firstloop'
        BY <1>3, Zenon DEF StartSegment, ReadWaypoint
    <2>3. /\ datapos >= 2 /\ nextsec = Waypoints[datapos - 1]
          /\ sentleg >= 1 /\ sentleg <= datapos - 1 /\ SentTo(datapos - 1)
        BY <2>1, <2>2 DEF ClockInv
    <2>4. /\ datapos' >= 3 /\ datapos' - 1 = datapos /\ datapos' - 2 = datapos - 1
          /\ lsec' <= lastsec' + 1
        BY <1>0, <2>1, <2>3
    <2>5. /\ sentleg' = 1 \/ sentsec' = Waypoints[sentleg']
          /\ \A later \in (sentleg' + 1)..(datapos' - 2) : Empty(later)
        BY <2>1, <2>3, <2>4 DEF SentTo
    <2>6. SentBefore'
        BY <1>0, <2>1, <2>3, <2>4, <2>5 DEF SentBefore, SentTo, Empty
    <2> QED BY <1>0, <2>1, <2>2, <2>3, <2>4, <2>6 DEF ClockInv
<1>4. CASE SimTurn \/ SimResult \/ UNCHANGED vars
    <2>1. UNCHANGED <<pc, datapos, lastsec, nextsec, lsec, sentsec, sentleg>>
        BY <1>4 DEF SimTurn, SimResult, vars, scriptVars, callVars, loopVars, sentences
    <2>2. firstpass' = firstpass /\ firstloop' = firstloop
        BY <1>4, Zenon DEF SimTurn, SimResult, vars, scriptVars, callVars, loopVars
    <2> QED BY <2>1, <2>2 DEF ClockInv, SentBefore, SentTo
<1>5. CASE EndSegment
    <2>1. /\ pc = "loop" /\ pc' = "next" /\ lsec > nextsec
          /\ UNCHANGED <<datapos, lastsec, nextsec, lsec, sentsec, sentleg>>
        BY <1>5 DEF EndSegment, At, callVars, loopVars, sentences
    <2>2. firstpass' = firstpass
        BY <1>5, Zenon DEF EndSegment, callVars
    <2>3. /\ datapos >= 3 /\ lastsec = Waypoints[datapos - 2] /\ SentBefore
          /\ nextsec = Waypoints[datapos - 1] /\ ~firstpass /\ sentleg >= 1
          /\ lsec <= nextsec + 1 \/ lsec = lastsec
        BY <1>0, <2>1 DEF ClockInv
    <2>t. lsec \in Nat /\ lastsec \in Nat /\ nextsec \in Nat
        BY <1>0
    <2>4. SentTo(datapos - 1) /\ sentleg <= datapos - 1
        <3>1. CASE lsec <= lastsec + 1
            <4>1. sentleg <= datapos - 2 /\ SentTo(datapos - 2)
                BY <2>3, <3>1 DEF SentBefore
            <4>2. Empty(datapos - 1)
                BY <1>0, <2>1, <2>3, <3>1 DEF Empty
            <4> QED BY <1>0, <4>1, <4>2 DEF SentTo
        <3>2. CASE ~(lsec <= lastsec + 1)
            <4>0. lsec = nextsec + 1
                <5>1. lsec <= nextsec + 1
                    BY <2>3, <2>t, <3>2
                <5> QED BY <2>1, <2>t, <5>1
            <4>1. sentleg = datapos - 1 /\ sentsec = nextsec
                BY <1>0, <2>3, <3>2, <4>0 DEF SentBefore
            <4> QED BY <1>0, <2>3, <4>1 DEF SentTo
        <3> QED BY <3>1, <3>2
    <2> QED BY <1>0, <2>1, <2>2, <2>3, <2>4 DEF ClockInv, SentTo, Empty
<1>6. CASE FirstSecond
    <2>1. /\ pc = "loop" /\ pc' = "loop" /\ lsec <= nextsec /\ lsec' = lsec + 1
          /\ UNCHANGED <<datapos, lastsec, nextsec, sentsec, sentleg>>
        BY <1>6 DEF FirstSecond, At, callVars, sentences
    <2>2. firstpass' = firstpass /\ firstloop /\ ~firstloop'
        BY <1>6, Zenon DEF FirstSecond, callVars
    <2>3. lsec = lastsec /\ lsec' = lastsec + 1 /\ SentBefore
        BY <2>1, <2>2 DEF ClockInv
    <2>4. SentBefore'
        BY <1>0, <2>1, <2>3 DEF SentBefore, SentTo, Empty
    <2> QED BY <1>0, <2>1, <2>2, <2>3, <2>4 DEF ClockInv
<1>7. CASE DarkSecond \/ LastDarkSecond \/ StableSecond \/ RedrawSecond
    <2>0. Second
        BY <1>7 DEF DarkSecond, LastDarkSecond, StableSecond, RedrawSecond
    <2>1. /\ pc = "loop" /\ pc' = "rmc" /\ lsec <= nextsec
          /\ UNCHANGED <<datapos, lastsec, nextsec, lsec, sentsec, sentleg>>
        BY <2>0 DEF Second, At, callVars, loopVars, sentences
    <2>2. firstpass' = firstpass /\ ~firstloop /\ firstloop' = firstloop
        BY <2>0, Zenon DEF Second, callVars, loopVars
    <2> QED BY <2>1, <2>2 DEF ClockInv, SentBefore, SentTo
<1>8. CASE SendRMC \/ SendGGA
    <2>1. /\ Sending /\ Sending'
          /\ UNCHANGED <<datapos, lastsec, nextsec, lsec, sentsec, sentleg>>
        BY <1>8 DEF SendRMC, SendGGA, At, callVars, loopVars
    <2>2. firstpass' = firstpass /\ firstloop' = firstloop
        BY <1>8, Zenon DEF SendRMC, SendGGA, callVars, loopVars
    <2>3. ~firstloop
        BY <2>1 DEF ClockInv
    <2> QED BY <2>1, <2>2, <2>3 DEF ClockInv, SentBefore, SentTo
<1>9. CASE SendGSA
    <2>1. /\ pc = "gsa" /\ pc' = "loop" /\ sentsec' = lsec /\ lsec' = lsec + 1
          /\ sentleg' = datapos - 1 /\ UNCHANGED <<datapos, lastsec, nextsec>>
        BY <1>9 DEF SendGSA, At, callVars
    <2>2. firstpass' = firstpass /\ firstloop' = firstloop
        BY <1>9, Zenon DEF SendGSA, callVars
    <2>3. ~firstloop /\ lsec <= nextsec /\ lsec > lastsec /\ datapos >= 3
        BY <2>1 DEF ClockInv
    <2>4. SentBefore'
        BY <1>0, <2>1, <2>3 DEF SentBefore
    <2> QED BY <1>0, <2>1, <2>2, <2>3, <2>4 DEF ClockInv
<1> QED BY <1>1, <1>2, <1>3, <1>4, <1>5, <1>6, <1>7, <1>8, <1>9 DEF Next

LEMMA ClockInitInv == Init => ClockInv
<1> SUFFICES ASSUME Init PROVE ClockInv
    OBVIOUS
<1>1. firstpass
    BY Zenon DEF Init
<1>2. datapos = 1 /\ sentleg = 1 /\ pc = "next"
    BY DEF Init
<1> QED BY <1>1, <1>2 DEF ClockInv, InSegment, Sending

(* What the completion of a group, the GSA sentence, adds to what was sent *)
(* before: the next second of its segment, or the first of a later one.    *)
NextInOrder ==
    pc = "gsa" /\ pc' = "loop" =>
        IF sentleg' = sentleg
        THEN sentsec < Waypoints[sentleg] /\ sentsec' = sentsec + 1
        ELSE /\ sentleg' > sentleg /\ SentTo(sentleg' - 1)
             /\ ~Empty(sentleg') /\ sentsec' = Waypoints[sentleg' - 1] + 1

LEMMA NextInOrderStep ==
    ASSUME ScriptInv, ClockInv, Next PROVE NextInOrder
<1> SUFFICES ASSUME pc = "gsa", pc' = "loop" PROVE NextInOrder
    BY DEF NextInOrder
<1>1. SendGSA
    BY DEF Next, EndScript, FirstWaypoint, StartSegment, SimTurn, SimResult, EndSegment,
           FirstSecond, DarkSecond, LastDarkSecond, StableSecond, RedrawSecond, Second,
           SendRMC, SendGGA, scriptVars, At, ReadWaypoint
<1>2. sentsec' = lsec /\ sentleg' = datapos - 1
    BY <1>1 DEF SendGSA
<1>3. /\ lsec > lastsec /\ lsec <= nextsec /\ SentBefore
      /\ datapos >= 3 /\ lastsec = Waypoints[datapos - 2] /\ nextsec = Waypoints[datapos - 1]
    BY DEF ClockInv, InSegment, Sending
<1>4. lsec \in Nat /\ lastsec \in Nat /\ nextsec \in Nat /\ datapos \in Nat /\ sentleg \in Nat
    BY DEF ScriptInv, ScriptTypeOK
<1>5. CASE lsec <= lastsec + 1
    <2>1. sentleg <= datapos - 2 /\ SentTo(datapos - 2)
        BY <1>3, <1>5 DEF SentBefore
    <2>2. sentleg' # sentleg /\ sentleg' > sentleg /\ sentleg' - 1 = datapos - 2
        BY <1>2, <1>3, <1>4, <2>1
    <2>3. sentsec' = Waypoints[sentleg' - 1] + 1 /\ ~Empty(sentleg')
        BY <1>2, <1>3, <1>4, <1>5, <2>2 DEF Empty
    <2> QED BY <2>1, <2>2, <2>3 DEF NextInOrder
<1>6. CASE ~(lsec <= lastsec + 1)
    <2>1. sentleg = datapos - 1 /\ sentsec = lsec - 1
        BY <1>3, <1>6 DEF SentBefore
    <2> QED BY <1>2, <1>3, <1>4, <2>1 DEF NextInOrder
<1> QED BY <1>5, <1>6

(* Whatever the script, every segment sends each of its seconds but the    *)
(* first, once and in order, and no segment with seconds is passed over.   *)
THEOREM SecondsInOrder == Spec => EverySecondOnce
<1>1. ScriptInv /\ ClockInv /\ [Next]_vars => [NextInOrder]_vars
    BY NextInOrderStep
<1>2. ScriptInv /\ ClockInv /\ [Next]_vars => ClockInv'
    BY ClockStep DEF ScriptInv
<1> QED BY <1>1, <1>2, ClockInitInv, ScriptInvariant, PTL DEF Spec, EverySecondOnce, NextInOrder

(* And when the flight is over nothing of its script is left to send. *)
LEMMA WholeAtEnd ==
    ASSUME ScriptInv, ClockInv PROVE WholeFlight
<1> SUFFICES ASSUME pc = "done" PROVE SentTo(Len(Waypoints))
    BY DEF WholeFlight
<1>1. datapos = Len(Waypoints) + 1 /\ Len(Waypoints) \in Nat /\ firstpass \in BOOLEAN
    BY ScriptAssumption DEF ClockInv, ScriptInv, ScriptTypeOK
<1>2. CASE firstpass
    BY <1>1, <1>2 DEF ClockInv, SentTo
<1>3. CASE ~firstpass
    BY <1>1, <1>3 DEF ClockInv
<1> QED BY <1>1, <1>2, <1>3

THEOREM FlightIsWhole == Spec => []WholeFlight
<1>1. ScriptInv /\ ClockInv => WholeFlight
    BY WholeAtEnd
<1>2. ScriptInv /\ ClockInv /\ [Next]_vars => ClockInv'
    BY ClockStep DEF ScriptInv
<1> QED BY <1>1, <1>2, ClockInitInv, ScriptInvariant, PTL DEF Spec
=============================================================================
