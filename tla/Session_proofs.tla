--------------------------- MODULE Session_proofs ---------------------------
(***************************************************************************)
(* Proofs about whole runs of GPSSIM, for every script, every list of      *)
(* arguments and every length of the delay at the end: what is proved of a *)
(* flight holds in a run, the clock paces every group sent to a port, and  *)
(* the port is closed after the last one.                                  *)
(***************************************************************************)
EXTENDS Session, ProcessScript_proofs

(* A step of the run is a step of the script or leaves the script alone.   *)
LEMMA ScriptInside == [SessionNext]_sessVars => [Next]_vars
<1> SUFFICES ASSUME [SessionNext]_sessVars PROVE Next \/ UNCHANGED vars
    OBVIOUS
<1>1. CASE BeginGroup \/ ScriptStep
    BY <1>1 DEF BeginGroup, GroupSecond, ScriptStep, Next
<1>2. CASE \E arg \in Arguments : StartOnScreen(arg) \/ StartOnPort(arg) \/ PortNotOpened(arg)
    BY <1>2 DEF StartOnScreen, StartOnPort, PortNotOpened
<1>3. CASE WaitForClock \/ NextSecond \/ Tick
    BY <1>3 DEF WaitForClock, NextSecond, Tick
<1>4. CASE ScriptOver \/ CloseCom \/ ExitHandler
    BY <1>4 DEF ScriptOver, CloseCom, ExitHandler
<1>5. CASE UNCHANGED sessVars
    BY <1>5 DEF sessVars
<1> QED BY <1>1, <1>2, <1>3, <1>4, <1>5 DEF SessionNext, Program

-----------------------------------------------------------------------------
(* Types of the variables main and wait_seconds have beside the script's. *)
MainTypeOK ==
    /\ mainpc \in {"start", "run", "drain", "exit", "over"}
    /\ portspec \in 0..8
    /\ secsleft \in 0..DRAIN
    /\ since \in 0..DRAIN

Flags ==
    /\ portopen \in BOOLEAN /\ atexits \in BOOLEAN
    /\ waited \in BOOLEAN /\ changed \in BOOLEAN

(* A port is open from its opening to the end of the delay, and not after. *)
OpenWhileRunning ==
    /\ mainpc = "start" => portspec = 0
    /\ portopen => portspec # 0
    /\ mainpc \in {"run", "drain"} /\ portspec # 0 => portopen
    /\ mainpc \in {"start", "exit", "over"} => ~portopen

(* A group may be begun only when the wait before it is over, and a wait   *)
(* ends only on a change of the clock seen since it began.                 *)
Paced ==
    /\ mainpc = "start" => ~waited
    /\ mainpc = "run" /\ waited /\ (secsleft = 0 \/ changed) => since >= 1

(* What the delay has counted, and the change it is about to count.        *)
Draining ==
    mainpc = "drain" =>
        /\ pc = "done"
        /\ portspec # 0 => since + secsleft >= DRAIN + (IF changed /\ secsleft > 0 THEN 1 ELSE 0)
                           \/ since = DRAIN

SessionInv == MainTypeOK /\ Flags /\ OpenWhileRunning /\ Paced /\ Draining

LEMMA SessionInitInv == SessionInit => SessionInv
<1> SUFFICES ASSUME SessionInit PROVE SessionInv
    OBVIOUS
<1>1. ~portopen /\ ~atexits /\ ~waited /\ ~changed
    BY Zenon DEF SessionInit
<1>2. mainpc = "start" /\ portspec = 0 /\ secsleft = 0 /\ since = 0
    BY DEF SessionInit
<1>3. portopen \in BOOLEAN /\ atexits \in BOOLEAN /\ waited \in BOOLEAN /\ changed \in BOOLEAN
    BY Zenon DEF SessionInit
<1> QED BY <1>1, <1>2, <1>3, SessionAssumption
        DEF SessionInv, Flags, MainTypeOK, OpenWhileRunning, Paced, Draining

LEMMA FlagsStep == Flags /\ [SessionNext]_sessVars => Flags'
<1> SUFFICES ASSUME Flags, [SessionNext]_sessVars PROVE Flags'
    OBVIOUS
<1>1. CASE \E arg \in Arguments : StartOnScreen(arg) \/ StartOnPort(arg) \/ PortNotOpened(arg)
    BY <1>1, Zenon DEF StartOnScreen, StartOnPort, PortNotOpened, waitVars, Flags
<1>2. CASE WaitForClock \/ NextSecond \/ Tick
    BY <1>2, Zenon DEF WaitForClock, NextSecond, Tick, WaitSeconds, mainVars, Flags
<1>3. CASE BeginGroup \/ ScriptStep
    BY <1>3, Zenon DEF BeginGroup, ScriptStep, mainVars, waitVars, Flags
<1>4. CASE ScriptOver \/ CloseCom \/ ExitHandler
    BY <1>4, Zenon DEF ScriptOver, CloseCom, ExitHandler, WaitSeconds, waitVars, Flags
<1>5. CASE UNCHANGED sessVars
    BY <1>5, Zenon DEF sessVars, mainVars, waitVars, Flags
<1> QED BY <1>1, <1>2, <1>3, <1>4, <1>5 DEF SessionNext, Program

LEMMA SessionStepInv == SessionInv /\ [SessionNext]_sessVars => SessionInv'
<1> SUFFICES ASSUME SessionInv, [SessionNext]_sessVars PROVE SessionInv'
    OBVIOUS
<1>f. Flags'
    BY FlagsStep DEF SessionInv
<1> USE <1>f, SessionAssumption DEF SessionInv, MainTypeOK, OpenWhileRunning, Paced, Draining
<1>1. CASE \E arg \in Arguments : StartOnScreen(arg) \/ StartOnPort(arg) \/ PortNotOpened(arg)
    <2>1. PICK arg \in Arguments : StartOnScreen(arg) \/ StartOnPort(arg) \/ PortNotOpened(arg)
        BY <1>1
    <2>2. PortOf(arg) \in 0..8
        BY DEF PortOf
    <2>3. mainpc = "start" /\ ~portopen /\ ~waited
          /\ UNCHANGED <<waited, secsleft, changed, since>>
        BY <2>1 DEF StartOnScreen, StartOnPort, PortNotOpened, waitVars
    <2>4. CASE StartOnScreen(arg)
        <3>1. mainpc' = "run" /\ UNCHANGED <<portspec, portopen, atexits>>
            BY <2>4 DEF StartOnScreen
        <3> QED BY <2>3, <3>1
    <2>5. CASE StartOnPort(arg)
        <3>1. mainpc' = "run" /\ portspec' = PortOf(arg) /\ portopen' = TRUE /\ atexits' = TRUE
            BY <2>5 DEF StartOnPort
        <3>2. portopen' /\ portspec' # 0 /\ portspec' \in 0..8
            BY <2>2, <2>5, <3>1 DEF StartOnPort
        <3> QED BY <2>3, <3>1, <3>2
    <2>6. CASE PortNotOpened(arg)
        <3>1. mainpc' = "exit" /\ portspec' = PortOf(arg) /\ UNCHANGED <<portopen, atexits>>
            BY <2>6 DEF PortNotOpened
        <3>2. ~portopen'
            BY <2>3, <3>1
        <3> QED BY <2>2, <2>3, <3>1, <3>2
    <2> QED BY <2>1, <2>4, <2>5, <2>6
<1>2. CASE WaitForClock
    <2>1. /\ mainpc = "run" /\ waited' = TRUE /\ secsleft' = 1 /\ changed' = FALSE
          /\ UNCHANGED <<mainpc, portspec, portopen, atexits, since>>
        BY <1>2 DEF WaitForClock, WaitsHere, Running, WaitSeconds, mainVars
    <2> QED BY <2>1
<1>3. CASE NextSecond
    <2>1. /\ secsleft > 0 /\ changed /\ secsleft' = secsleft - 1 /\ changed' = FALSE
          /\ UNCHANGED <<pc, mainpc, portspec, portopen, atexits, waited, since>>
        BY <1>3 DEF NextSecond, mainVars, vars, scriptVars
    <2> QED BY <2>1
<1>4. CASE Tick
    <2>1. /\ mainpc \in {"run", "drain"} /\ changed' = TRUE
          /\ since' = IF mainpc = "run" THEN 1 ELSE IF since < DRAIN THEN since + 1 ELSE since
          /\ UNCHANGED <<pc, mainpc, portspec, portopen, atexits, waited, secsleft>>
        BY <1>4 DEF Tick, mainVars, vars, scriptVars
    <2> QED BY <2>1
<1>5. CASE BeginGroup
    <2>1. /\ mainpc = "run" /\ waited' = FALSE /\ since' = 0
          /\ UNCHANGED <<mainpc, portspec, portopen, atexits, secsleft, changed>>
        BY <1>5 DEF BeginGroup, Running, mainVars
    <2> QED BY <2>1
<1>6. CASE ScriptStep
    <2>1. /\ mainpc = "run"
          /\ UNCHANGED <<mainpc, portspec, portopen, atexits, waited, secsleft, changed, since>>
        BY <1>6 DEF ScriptStep, Running, mainVars, waitVars
    <2> QED BY <2>1
<1>7. CASE ScriptOver
    <2>1. /\ mainpc = "run" /\ mainpc' = "drain" /\ pc = "done" /\ pc' = pc
          /\ since' = 0 /\ UNCHANGED <<portspec, portopen, atexits, waited>>
        BY <1>7 DEF ScriptOver, Running, vars, scriptVars
    <2>2. \/ portspec # 0 /\ secsleft' = DRAIN /\ changed' = FALSE
          \/ portspec = 0 /\ UNCHANGED <<secsleft, changed>>
        BY <1>7 DEF ScriptOver, WaitSeconds
    <2> QED BY <2>1, <2>2
<1>8. CASE CloseCom
    <2>1. /\ mainpc' = "exit" /\ portopen' = FALSE
          /\ UNCHANGED <<portspec, atexits, waited, secsleft, changed, since>>
        BY <1>8 DEF CloseCom, waitVars
    <2> QED BY <2>1
<1>9. CASE ExitHandler
    <2>1. /\ mainpc = "exit" /\ mainpc' = "over" /\ portopen' = (portopen /\ ~atexits)
          /\ UNCHANGED <<portspec, atexits, waited, secsleft, changed, since>>
        BY <1>9 DEF ExitHandler, waitVars
    <2>2. portopen' \in BOOLEAN /\ ~portopen'
        BY <2>1
    <2> QED BY <2>1, <2>2
<1>10. CASE UNCHANGED sessVars
    BY <1>10 DEF sessVars, vars, scriptVars, mainVars, waitVars
<1> QED BY <1>1, <1>2, <1>3, <1>4, <1>5, <1>6, <1>7, <1>8, <1>9, <1>10
        DEF SessionNext, Program

THEOREM SessionInvariant == SessionSpec => [](ScriptInv /\ SessionInv)
<1>1. SessionInit => Init
    BY DEF SessionInit
<1> QED BY <1>1, ScriptInside, ScriptInitInv, ScriptStepInv, SessionInitInv, SessionStepInv,
        PTL DEF SessionSpec

(* What is proved of the script alone holds in a whole run, though the     *)
(* waits, the clock and main itself take their steps between the script's. *)
LEMMA RunOfScript == SessionSpec => [][Next]_vars
    BY ScriptInside, PTL DEF SessionSpec

LEMMA SessionClock == SessionSpec => []ClockInv
<1>1. SessionInit => Init
    BY DEF SessionInit
<1>2. ScriptInv /\ ClockInv /\ [Next]_vars => ClockInv'
    BY ClockStep DEF ScriptInv
<1> QED BY <1>1, <1>2, ClockInitInv, ScriptInside, SessionInvariant, PTL DEF SessionSpec

(* Types and bounds of every variable of a run. *)
THEOREM SessionTypeCorrect == SessionSpec => []SessionTypeOK
<1>1. ScriptInv /\ SessionInv => SessionTypeOK
    BY DEF ScriptInv, SatInv, CycleInv, TypeOK, SessionInv, MainTypeOK, Flags, SessionTypeOK
<1> QED BY <1>1, SessionInvariant, PTL

(* The groups a whole run sends agree, and are empty exactly in dropouts.  *)
THEOREM SessionGroups ==
    ASSUME ~SCALED PROVE SessionSpec => [](GroupAgrees /\ EmptyWhileDark)
<1>1. ScriptInv => GroupAgrees /\ EmptyWhileDark
    BY DEF ScriptInv, GroupTells
<1> QED BY <1>1, SessionInvariant, PTL

(* On a port no two groups are begun without a change of the clock between *)
(* them, however the clock and the program interleave.                     *)
THEOREM GroupsPaced == SessionSpec => OneGroupPerSecond
<1> DEFINE Early == mainpc = "run" /\ portspec # 0 /\ pc = "loop" /\ pc' = "rmc" => since >= 1
<1>1. SessionInv /\ [SessionNext]_sessVars => [Early]_sessVars
    <2> SUFFICES ASSUME SessionInv, SessionNext, mainpc = "run", portspec # 0,
                        pc = "loop", pc' = "rmc"
                 PROVE  since >= 1
        OBVIOUS
    <2>1. BeginGroup
        <3>1. ~ScriptStep
            BY DEF ScriptStep, EndScript, FirstWaypoint, StartSegment, SimTurn, SimResult,
                   EndSegment, FirstSecond, Second, SendRMC, SendGGA, SendGSA, At,
                   ReadWaypoint, scriptVars
        <3>2. pc' # pc
            OBVIOUS
        <3> QED BY <3>1, <3>2 DEF SessionNext, Program, StartOnScreen, StartOnPort,
                PortNotOpened, WaitForClock, NextSecond, Tick, ScriptOver, CloseCom,
                ExitHandler, vars, scriptVars
    <2>2. waited /\ secsleft = 0
        BY <2>1 DEF BeginGroup, Running
    <2> QED BY <2>2 DEF SessionInv, Paced
<1> QED BY <1>1, SessionInvariant, PTL DEF SessionSpec, OneGroupPerSecond

-----------------------------------------------------------------------------
(* The port is closed after the whole script's groups and the delay,       *)
(* whatever the script.                                                    *)
THEOREM ClosesLast == SessionSpec => DrainsBeforeClose
<1> DEFINE Drained ==
        /\ portopen /\ ~portopen' =>
             since >= DRAIN /\ SentTo(Len(Waypoints))
        /\ <<rmc, gga, gsa>>' # <<rmc, gga, gsa>> /\ portspec # 0 => portopen
<1>1. ScriptInv /\ ClockInv /\ SessionInv /\ [SessionNext]_sessVars => [Drained]_sessVars
    <2> SUFFICES ASSUME ScriptInv, ClockInv, SessionInv, SessionNext PROVE Drained
        OBVIOUS
    <2>1. ASSUME portopen, ~portopen'
          PROVE  since >= DRAIN /\ SentTo(Len(Waypoints))
        <3>1. CloseCom
            BY <2>1 DEF SessionNext, Program, SessionInv, OpenWhileRunning, StartOnScreen,
               StartOnPort, PortNotOpened, WaitForClock, NextSecond, Tick, BeginGroup,
               ScriptStep, ScriptOver, ExitHandler, mainVars
        <3>2. mainpc = "drain" /\ secsleft = 0
            BY <3>1 DEF CloseCom
        <3>3. portspec # 0
            BY <2>1 DEF SessionInv, OpenWhileRunning
        <3>4. since >= DRAIN /\ pc = "done"
            BY <3>2, <3>3, SessionAssumption DEF SessionInv, Draining, MainTypeOK
        <3> QED BY <3>4, WholeAtEnd DEF WholeFlight
    <2>2. ASSUME <<rmc, gga, gsa>>' # <<rmc, gga, gsa>>, portspec # 0 PROVE portopen
        <3>1. BeginGroup \/ ScriptStep
            BY <2>2 DEF SessionNext, Program, StartOnScreen, StartOnPort, PortNotOpened,
               WaitForClock, NextSecond, Tick, ScriptOver, CloseCom, ExitHandler,
               vars, scriptVars, sentences
        <3>2. mainpc = "run"
            BY <3>1 DEF BeginGroup, ScriptStep, Running
        <3> QED BY <2>2, <3>2 DEF SessionInv, OpenWhileRunning
    <2> QED BY <2>1, <2>2
<1> HIDE DEF Drained
<1>2. SessionSpec => [][Drained]_sessVars
    BY <1>1, SessionClock, SessionInvariant, PTL DEF SessionSpec
<1> QED BY <1>2 DEF DrainsBeforeClose, Drained

-----------------------------------------------------------------------------
(* The dropouts of a run begin and end on the seconds they are due, in     *)
(* simulated time: no wait for the clock moves them.                       *)
THEOREM SessionSchedule ==
    ASSUME DROPOUTS PROVE SessionSpec => KeepsSchedule
<1>1. SessionInit => Outages!OutageInit
    BY DEF SessionInit, Init, CycleInit, Outages!OutageInit
<1>2. ScriptInv /\ [Next]_vars => [Outages!OutageNext]_(Outages!outageVars)
    BY CountersInside, ScheduleStep DEF ScriptInv
<1> QED BY <1>1, <1>2, RunOfScript, SessionInvariant, PTL
        DEF SessionSpec, KeepsSchedule, Outages!OutageSpec

(* The satellites a run shows change only at a draw or a dropout's edge.   *)
THEOREM SessionListStable == SessionSpec => ListStableBetweenDraws
<1>1. SessionInit => ListShown
    BY DEF SessionInit, Init, ListShown, Sending
<1>2. ScriptInv /\ ListShown /\ [Next]_vars =>
         [gsa'.prns # gsa.prns /\ lsec > lastsec + 1 => stablect = 0]_vars
    BY OtherListStep
<1>3. ScriptInv /\ ListShown /\ [Next]_vars => ListShown'
    BY ListShownStep
<1> QED BY <1>1, <1>2, <1>3, RunOfScript, SessionInvariant, PTL
        DEF SessionSpec, ListStableBetweenDraws

(* A run sends every segment's seconds once and in order. *)
THEOREM SessionSecondsInOrder == SessionSpec => EverySecondOnce
<1>1. ScriptInv /\ ClockInv /\ [Next]_vars => [NextInOrder]_vars
    BY NextInOrderStep
<1> QED BY <1>1, RunOfScript, SessionClock, SessionInvariant, PTL
        DEF EverySecondOnce, NextInOrder

(* And when it is at the script's end nothing is left to send. *)
THEOREM SessionWhole == SessionSpec => []WholeFlight
<1>1. ScriptInv /\ ClockInv => WholeFlight
    BY WholeAtEnd
<1> QED BY <1>1, SessionClock, SessionInvariant, PTL
=============================================================================
