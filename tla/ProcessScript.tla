--------------------------- MODULE ProcessScript ---------------------------
(***************************************************************************)
(* process_script of gpssim.c and the loop that calls it: one call per     *)
(* waypoint of the script, and in each call one group of three sentences   *)
(* (RMC, GGA, GSA) for every second between the last waypoint and the      *)
(* next.  It composes the satellite list (Satellites) with the counters    *)
(* that renew it or take it away (DropoutCycle).  A sentence is the fields *)
(* the properties tell apart; positions, speeds and checksums are left     *)
(* out.  Instants are seconds since the start of the script's first year,  *)
(* as date_secs and time_secs compute them.                                *)
(***************************************************************************)
EXTENDS Satellites, DropoutCycle, Sequences

CONSTANT Waypoints   \* the instants of date_time[], without its end marker

ASSUME ScriptAssumption ==
    /\ Waypoints \in Seq(Nat)
    /\ DROPOUTS = ~PERFECT

VARIABLES
    pc,         \* where process_script stands
    datapos,    \* flt_datapos, counted from 1
    firstpass,  \* flt_firstpass
    lastsec,    \* flt_last_sec
    nextsec,    \* flt_next_sec
    lsec,       \* the second being simulated
    firstloop,  \* the segment's first second, which sends nothing
    nsats,      \* process_script's own count of satellites
    rmc,        \* the last RMC sentence sent
    gga,        \* the last GGA sentence sent
    gsa,        \* the last GSA sentence sent
    sentsec,    \* history: the second of the last group sent
    sentleg     \* history: the waypoint its segment leads to, 1 before any

callVars   == <<datapos, firstpass, lastsec, nextsec>>
loopVars   == <<lsec, firstloop>>
sentences  == <<rmc, gga, gsa, sentsec, sentleg>>
scriptVars == <<pc, callVars, loopVars, nsats, sentences>>
vars       == <<satVars, cycleVars, scriptVars>>

NoTime == -1

Init ==
    /\ SatInit
    /\ CycleInit
    /\ pc = "next"
    /\ datapos = 1
    /\ firstpass = TRUE
    /\ lastsec = 0
    /\ nextsec = 0
    /\ lsec = 0
    /\ firstloop = TRUE
    /\ nsats = 0
    /\ rmc = [status |-> "none", time |-> NoTime, blank |-> FALSE]
    /\ gga = [quality |-> 0, sats |-> 0, blank |-> FALSE]
    /\ gsa = [status |-> "none", fix |-> 1, prns |-> {}, dop |-> NoDilution]
    /\ sentsec = NoTime
    /\ sentleg = 1

-----------------------------------------------------------------------------
(* A call of process_script. *)
At(label) == pc = label /\ simpc = "idle"

(* The end marker is read: the script is over. *)
EndScript ==
    /\ At("next")
    /\ datapos > Len(Waypoints)
    /\ pc' = "done"
    /\ UNCHANGED <<satVars, cycleVars, callVars, loopVars, nsats, sentences>>

ReadWaypoint ==
    /\ At("next")
    /\ datapos <= Len(Waypoints)
    /\ lastsec' = nextsec
    /\ nextsec' = Waypoints[datapos]
    /\ datapos' = datapos + 1
    /\ firstpass' = FALSE

(* One waypoint is not enough to interpolate: the first call only reads. *)
FirstWaypoint ==
    /\ firstpass
    /\ ReadWaypoint
    /\ UNCHANGED <<satVars, cycleVars, pc, loopVars, nsats, sentences>>

(* Each segment starts on a list of its own, whatever the counters say. *)
(* mutant: a new segment also restarts the stable seconds *)
StartSegmentRestartsCounter ==
    /\ ~firstpass
    /\ ReadWaypoint
    /\ BeginSim(4, {}, 0)
    /\ lsec' = lastsec'
    /\ firstloop' = TRUE
    /\ pc' = "loop"
    /\ stablect' = 0
    /\ UNCHANGED <<dop, dropoutct, cyclect, phase, run, nsats, sentences>>

StartSegment ==
    /\ ~firstpass
    /\ ReadWaypoint
    /\ BeginSim(4, {}, 0)
    /\ lsec' = lastsec'
    /\ firstloop' = TRUE
    /\ pc' = "loop"
    /\ UNCHANGED <<dop, cycleVars, nsats, sentences>>

-----------------------------------------------------------------------------
(* sim_satellites at work; its result is assigned to nsats. *)
SimTurn ==
    /\ DeleteSat \/ AddSat
    /\ UNCHANGED <<cycleVars, scriptVars>>

SimResult ==
    /\ EndSim
    /\ nsats' = totalsats
    /\ UNCHANGED <<cycleVars, pc, callVars, loopVars, sentences>>

-----------------------------------------------------------------------------
(* The loop over the seconds of the segment. *)
(* mutant: lsec < flt_next_sec *)
EndSegmentEarly ==
    /\ At("loop")
    /\ lsec >= nextsec
    /\ pc' = "next"
    /\ UNCHANGED <<satVars, cycleVars, callVars, loopVars, nsats, sentences>>

EndSegment ==
    /\ At("loop")
    /\ lsec > nextsec
    /\ pc' = "next"
    /\ UNCHANGED <<satVars, cycleVars, callVars, loopVars, nsats, sentences>>

(* mutant: the first second is sent too *)
FirstSecondSent ==
    /\ At("loop")
    /\ lsec <= nextsec
    /\ firstloop
    /\ firstloop' = FALSE
    /\ UNCHANGED <<satVars, cycleVars, pc, callVars, lsec, nsats, sentences>>

FirstSecond ==
    /\ At("loop")
    /\ lsec <= nextsec
    /\ firstloop
    /\ firstloop' = FALSE
    /\ lsec' = lsec + 1
    /\ UNCHANGED <<satVars, cycleVars, pc, callVars, nsats, sentences>>

Second ==
    /\ At("loop")
    /\ lsec <= nextsec
    /\ ~firstloop
    /\ pc' = "rmc"
    /\ UNCHANGED <<callVars, loopVars, sentences>>

(* mutant: the list is cleared at the dropout's first second only *)
DarkSecondClearsOnce ==
    /\ Second
    /\ KeepDropout
    /\ IF dropoutct = 0 THEN ClearSatellites /\ ClearDilutions
       ELSE UNCHANGED <<satarray, totalsats, fixtype, dop>>
    /\ nsats' = 0
    /\ UNCHANGED <<numsats, simpc, listAtCall>>

DarkSecond ==
    /\ Second
    /\ KeepDropout
    /\ ClearSatellites
    /\ ClearDilutions
    /\ nsats' = 0
    /\ UNCHANGED <<numsats, simpc, listAtCall>>

LastDarkSecond ==
    /\ Second
    /\ LeaveDropout
    /\ BeginSim(3, {}, 0)
    /\ ClearDilutions
    /\ nsats' = 0

(* mutant: the list is drawn every second *)
StableSecondRedraws ==
    /\ Second
    /\ KeepList
    /\ BeginSim(0, satarray, totalsats)
    /\ UNCHANGED <<dop, nsats>>

StableSecond ==
    /\ Second
    /\ KeepList
    /\ UNCHANGED <<satVars, nsats>>

RedrawSecond ==
    /\ Second
    /\ RedrawList
    /\ BeginSim(0, satarray, totalsats)
    /\ UNCHANGED <<dop, nsats>>

-----------------------------------------------------------------------------
(* The three sentences of a group. *)
Fix == fixtype # 1

SendRMC ==
    /\ At("rmc")
    /\ LET blank == ~Fix /\ nsats = 0 IN
       rmc' = [status |-> IF Fix THEN "A" ELSE "V",
               time   |-> IF blank THEN NoTime ELSE lsec,
               blank  |-> blank]
    /\ pc' = "gga"
    /\ UNCHANGED <<satVars, cycleVars, callVars, loopVars, nsats, gga, gsa, sentsec, sentleg>>

(* Without a fix, `if (nsats = 0)' assigns: the count is lost, and the     *)
(* branch that leaves the fields blank is never taken.                     *)
SendGGA ==
    /\ At("gga")
    /\ nsats' = IF Fix THEN nsats ELSE 0
    /\ gga' = [quality |-> IF Fix THEN 1 ELSE 0, sats |-> nsats', blank |-> FALSE]
    /\ pc' = "gsa"
    /\ UNCHANGED <<satVars, cycleVars, callVars, loopVars, rmc, gsa, sentsec, sentleg>>

(* mutant: GSA always says active, as it did before release 1.02 *)
SendGSAActive ==
    /\ At("gsa")
    /\ gsa' = [status |-> "A", fix |-> fixtype, prns |-> satarray, dop |-> dop]
    /\ sentsec' = lsec
    /\ sentleg' = datapos - 1
    /\ lsec' = lsec + 1
    /\ pc' = "loop"
    /\ UNCHANGED <<satVars, cycleVars, callVars, firstloop, nsats, rmc, gga>>

SendGSA ==
    /\ At("gsa")
    /\ gsa' = [status |-> rmc.status, fix |-> fixtype, prns |-> {SatId(slot) : slot \in satarray},
               dop |-> dop]
    /\ sentsec' = lsec
    /\ sentleg' = datapos - 1
    /\ lsec' = lsec + 1
    /\ pc' = "loop"
    /\ UNCHANGED <<satVars, cycleVars, callVars, firstloop, nsats, rmc, gga>>

-----------------------------------------------------------------------------
Next ==
    \/ EndScript \/ FirstWaypoint \/ StartSegment
    \/ SimTurn \/ SimResult
    \/ EndSegment \/ FirstSecond
    \/ DarkSecond \/ LastDarkSecond \/ StableSecond \/ RedrawSecond
    \/ SendRMC \/ SendGGA \/ SendGSA

Spec == Init /\ [][Next]_vars /\ WF_vars(Next)

-----------------------------------------------------------------------------
ScriptTypeOK ==
    /\ pc \in {"next", "loop", "rmc", "gga", "gsa", "done"}
    /\ datapos \in 1..(Len(Waypoints) + 1)
    /\ firstpass \in BOOLEAN
    /\ lastsec \in Nat /\ nextsec \in Nat /\ lsec \in Nat
    /\ firstloop \in BOOLEAN
    /\ nsats \in 0..MaxSats
    /\ rmc \in [status : {"none", "A", "V"}, time : Nat \cup {NoTime}, blank : BOOLEAN]
    /\ gga \in [quality : 0..1, sats : 0..MaxSats, blank : BOOLEAN]
    /\ gsa \in [status : {"none", "A", "V"}, fix : 1..3, prns : SUBSET Slots, dop : 0..MaxSats]
    /\ sentsec \in Nat \cup {NoTime}
    /\ sentleg \in Nat

(* Everything keeps its type and the satellite counts stay in 0..6. *)
TypeOK == SatTypeOK /\ CycleTypeOK /\ ScriptTypeOK

(* A whole group has been sent and no other has begun. *)
GroupSent == rmc.status # "none" /\ pc \in {"loop", "next", "done"}

(* The three sentences of a group, built from different variables at       *)
(* different moments, tell one story: they agree on whether there is a     *)
(* fix, the dilutions are those of the satellites shown, and so is GGA's   *)
(* count in a group with a fix.  In one without a fix that count is 0,     *)
(* also when GSA lists two satellites: the test of gpssim.c:2984 assigns.  *)
(* A time, when RMC shows one, is the second the group was begun for.      *)
GroupAgrees ==
    GroupSent =>
        /\ gsa.status = rmc.status
        /\ (rmc.status = "A") <=> (gga.quality = 1)
        /\ gsa.fix = 1 <=> rmc.status = "V"
        /\ gsa.fix = 2 <=> Cardinality(gsa.prns) = 3
        /\ gga.sats = IF rmc.status = "A" THEN Cardinality(gsa.prns) ELSE 0
        /\ gsa.dop = Dilution(Cardinality(gsa.prns))
        /\ rmc.time = IF rmc.blank THEN NoTime ELSE sentsec

(* No satellite is shown exactly while the dropout branch runs: a segment  *)
(* that starts inside a dropout draws a list and must not let it show.     *)
EmptyWhileDark == GroupSent => (gsa.prns = {} <=> phase = "dark")

(* With PERFECT_SAT_FIXES there are "no dropouts" (gpssim.c:134): every    *)
(* group has a fix.                                                        *)
PerfectHasFix == PERFECT /\ GroupSent => rmc.status = "A"

(* Inside a segment the satellites shown change only at a redraw or at a   *)
(* dropout's edge: both leave the stable-seconds counter at 0.             *)
ListStableBetweenDraws ==
    [][gsa'.prns # gsa.prns /\ lsec > lastsec + 1 => stablect = 0]_vars

(* A segment that leads to a waypoint no later than the one before it has  *)
(* no second to send: the loop (gpssim.c:2725) is empty.                   *)
Empty(leg) == Waypoints[leg] <= Waypoints[leg - 1]

(* The segment of the last group is finished, and every one after it up to *)
(* the one that leads to waypoint leg is empty.                            *)
SentTo(leg) ==
    /\ sentleg = 1 \/ sentsec = Waypoints[sentleg]
    /\ \A later \in (sentleg + 1)..leg : Empty(later)

(* Every segment sends each of its seconds but the first, once and in      *)
(* order, and the segments follow each other as the script has them.  The  *)
(* skipped second is the one the segment before has sent ("so that it      *)
(* won't be duplicated later", gpssim.c:2715), or the first waypoint's; a  *)
(* script that goes back in time, as date_time[] does, sends the seconds   *)
(* between once more.                                                      *)
EverySecondOnce ==
    [][pc = "gsa" /\ pc' = "loop" =>
         IF sentleg' = sentleg
         THEN sentsec < Waypoints[sentleg] /\ sentsec' = sentsec + 1
         ELSE /\ sentleg' > sentleg /\ SentTo(sentleg' - 1)
              /\ ~Empty(sentleg') /\ sentsec' = Waypoints[sentleg' - 1] + 1]_vars

(* When the script is over nothing of it is left to send, whatever order   *)
(* its instants are in.                                                    *)
WholeFlight == pc = "done" => SentTo(Len(Waypoints))

-----------------------------------------------------------------------------
(* What comments of the source and the captures beside it say, and the     *)
(* code does not do.                                                       *)

(* A receiver without a fix leaves the fields of GGA blank when it leaves  *)
(* those of RMC blank, as the captured one does (etrex_capture.txt:3).     *)
BlankTogether == GroupSent => (rmc.blank <=> gga.blank)
=============================================================================
