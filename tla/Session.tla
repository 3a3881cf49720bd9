------------------------------ MODULE Session ------------------------------
(***************************************************************************)
(* A run of GPSSIM under Windows or Linux: main of gpssim.c around the     *)
(* script (ProcessScript), with the port it opens and closes, the handler  *)
(* it registers with atexit, and wait_seconds, which holds every group     *)
(* back until the machine's clock shows another second.  The clock goes on *)
(* at any moment, also while sentences are written.                        *)
(***************************************************************************)
EXTENDS ProcessScript

CONSTANTS
    Arguments,  \* the numbers the first argument may read as
    DRAIN       \* the seconds main waits before it closes the port (3)

ASSUME SessionAssumption ==
    /\ Arguments \subseteq Int
    /\ DRAIN \in Nat \ {0}

VARIABLES
    mainpc,    \* where main stands
    portspec,  \* 0: the sentences go to the screen
    portopen,  \* portspec is open
    atexits,   \* early_exit_closecom is registered
    waited,    \* the wait of this second of the script is over
    secsleft,  \* the turns wait_seconds has left; 0 outside it
    changed,   \* the clock is past the second wait_seconds read last
    since      \* history: clock changes since a group was begun, up to 1,
               \*   and then since the script's end, up to DRAIN

mainVars  == <<mainpc, portspec, portopen, atexits>>
waitVars  == <<waited, secsleft, changed>>
sessVars  == <<vars, mainVars, waitVars, since>>

SessionInit ==
    /\ Init
    /\ mainpc = "start"
    /\ portspec = 0
    /\ portopen = FALSE
    /\ atexits = FALSE
    /\ waited = FALSE
    /\ secsleft = 0
    /\ changed = FALSE
    /\ since = 0

-----------------------------------------------------------------------------
(* The machine's clock.  A program that waits compares two readings of it  *)
(* and nothing else, so it is only told whether it has changed; without a  *)
(* port it never asks.                                                     *)
Tick ==
    /\ portspec # 0
    /\ mainpc \in {"run", "drain"}
    /\ changed' = TRUE
    /\ since' = IF mainpc = "run" THEN 1 ELSE IF since < DRAIN THEN since + 1 ELSE since
    /\ UNCHANGED <<vars, mainVars, waited, secsleft>>

(* wait_seconds: time_previous is read, and then time_current until the    *)
(* two differ.  Readings that show no change are left out.                 *)
WaitSeconds(secs) ==
    /\ secsleft' = secs
    /\ changed' = FALSE

(* mutant: time_previous = time_current is missing *)
NextSecondForgotten ==
    /\ secsleft > 0
    /\ changed
    /\ secsleft' = 0
    /\ changed' = FALSE
    /\ UNCHANGED <<vars, mainVars, waited, since>>

NextSecond ==
    /\ secsleft > 0
    /\ changed
    /\ secsleft' = secsleft - 1
    /\ changed' = FALSE
    /\ UNCHANGED <<vars, mainVars, waited, since>>

-----------------------------------------------------------------------------
(* main, up to open_script.  A number outside 1..8 means the screen; so    *)
(* may no argument at all, when the number is read from a buffer nothing   *)
(* has written.                                                            *)
PortOf(arg) == IF arg \in 1..8 THEN arg ELSE 0

StartOnScreen(arg) ==
    /\ mainpc = "start"
    /\ PortOf(arg) = 0
    /\ mainpc' = "run"
    /\ UNCHANGED <<vars, portspec, portopen, atexits, waitVars, since>>

StartOnPort(arg) ==
    /\ mainpc = "start"
    /\ PortOf(arg) # 0
    /\ portspec' = PortOf(arg)
    /\ portopen' = TRUE
    /\ atexits' = TRUE
    /\ mainpc' = "run"
    /\ UNCHANGED <<vars, waitVars, since>>

(* open_com returns 0: exit(1), with nothing registered. *)
PortNotOpened(arg) ==
    /\ mainpc = "start"
    /\ PortOf(arg) # 0
    /\ portspec' = PortOf(arg)
    /\ mainpc' = "exit"
    /\ UNCHANGED <<vars, portopen, atexits, waitVars, since>>

-----------------------------------------------------------------------------
Running == mainpc = "run" /\ secsleft = 0

(* A second of the script that sends a group: with a port open the program *)
(* first waits for the clock.                                              *)
WaitsHere ==
    /\ Running
    /\ At("loop")
    /\ lsec <= nextsec
    /\ ~firstloop

WaitForClock ==
    /\ WaitsHere
    /\ portspec # 0
    /\ ~waited
    /\ WaitSeconds(1)
    /\ waited' = TRUE
    /\ UNCHANGED <<vars, mainVars, since>>

GroupSecond == DarkSecond \/ LastDarkSecond \/ StableSecond \/ RedrawSecond

(* mutant: the wait is in the branch that has satellites *)
BeginGroupUnpacedInDropout ==
    /\ Running
    /\ portspec # 0 => waited \/ InDropout
    /\ GroupSecond
    /\ waited' = FALSE
    /\ since' = 0
    /\ UNCHANGED <<mainVars, secsleft, changed>>

BeginGroup ==
    /\ Running
    /\ portspec # 0 => waited
    /\ GroupSecond
    /\ waited' = FALSE
    /\ since' = 0
    /\ UNCHANGED <<mainVars, secsleft, changed>>

(* Every other step of the script. *)
ScriptStep ==
    /\ Running
    /\ \/ EndScript \/ FirstWaypoint \/ StartSegment
       \/ SimTurn \/ SimResult
       \/ EndSegment \/ FirstSecond
       \/ SendRMC \/ SendGGA \/ SendGSA
    /\ UNCHANGED <<mainVars, waitVars, since>>

-----------------------------------------------------------------------------
(* The end of main: "delay 3 seconds to allow port to finish output        *)
(* buffer" (gpssim.c:3436), close_com, and then the handler, which closes  *)
(* the port once more.                                                     *)
ScriptOver ==
    /\ Running
    /\ pc = "done"
    /\ mainpc' = "drain"
    /\ IF portspec # 0 THEN WaitSeconds(DRAIN) ELSE UNCHANGED <<secsleft, changed>>
    /\ since' = 0
    /\ UNCHANGED <<vars, portspec, portopen, atexits, waited>>

CloseCom ==
    /\ mainpc = "drain"
    /\ secsleft = 0
    /\ portopen' = FALSE
    /\ mainpc' = "exit"
    /\ UNCHANGED <<vars, portspec, atexits, waitVars, since>>

ExitHandler ==
    /\ mainpc = "exit"
    /\ portopen' = (portopen /\ ~atexits)
    /\ mainpc' = "over"
    /\ UNCHANGED <<vars, portspec, atexits, waitVars, since>>

-----------------------------------------------------------------------------
Program ==
    \/ \E arg \in Arguments : StartOnScreen(arg) \/ StartOnPort(arg) \/ PortNotOpened(arg)
    \/ WaitForClock \/ NextSecond
    \/ BeginGroup \/ ScriptStep
    \/ ScriptOver \/ CloseCom \/ ExitHandler

SessionNext == Program \/ Tick

(* One thread that blocks nowhere, and a clock that does not stop. *)
SessionSpec ==
    SessionInit /\ [][SessionNext]_sessVars /\ WF_sessVars(Program) /\ WF_sessVars(Tick)

-----------------------------------------------------------------------------
SessionTypeOK ==
    /\ TypeOK
    /\ mainpc \in {"start", "run", "drain", "exit", "over"}
    /\ portspec \in 0..8
    /\ portopen \in BOOLEAN /\ atexits \in BOOLEAN
    /\ waited \in BOOLEAN /\ changed \in BOOLEAN
    /\ secsleft \in 0..DRAIN
    /\ since \in 0..DRAIN

(* "Serial output is in REAL TIME (1 GPS data group per second)"           *)
(* (gpssim.c:3168): on a port no two groups are begun in the same second   *)
(* of the clock, however long the sentences take and wherever the segments *)
(* are cut.  So simulated time never runs ahead; when the clock changes    *)
(* twice in one group it falls behind, and stays there.                    *)
OneGroupPerSecond ==
    [][mainpc = "run" /\ portspec # 0 /\ pc = "loop" /\ pc' = "rmc"
         => since >= 1]_sessVars

(* The port is closed when the whole flight has been sent and the clock    *)
(* has changed DRAIN times since, and nothing is sent to it afterwards.    *)
DrainsBeforeClose ==
    [][ /\ portopen /\ ~portopen' =>
             since >= DRAIN /\ SentTo(Len(Waypoints))
        /\ <<rmc, gga, gsa>>' # <<rmc, gga, gsa>> /\ portspec # 0 => portopen ]_sessVars

(* A run comes to its end, and leaves the port closed. *)
SessionEnds == <>[](mainpc = "over" /\ ~portopen)
=============================================================================
