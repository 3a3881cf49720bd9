---------------------------- MODULE ArduinoClock ----------------------------
(***************************************************************************)
(* GPSSIM's pacing on the Arduino: seconds_elapsed counts the seconds of a *)
(* millisecond clock that wraps, the loop of a segment polls it before     *)
(* each group, and time(), at the start of a segment, calls it too.  The   *)
(* clock goes on between any two steps of the program.                     *)
(***************************************************************************)
EXTENDS Integers

CONSTANTS
    WRAP,     \* millis() counts from 0 to WRAP - 1 (WRAP = 2^32)
    SECOND,   \* its milliseconds in a second (1000)
    MAXWORK,  \* the longest time between two calls of seconds_elapsed
    NOWCAP, SEGCAP  \* bounds of this model: on the time and the segments

ASSUME ClockAssumption ==
    /\ SECOND \in Nat \ {0}
    /\ MAXWORK \in Nat \ {0}
    /\ WRAP \in Nat
    /\ MAXWORK + SECOND <= WRAP
    /\ NOWCAP \in Nat /\ SEGCAP \in Nat

VARIABLES
    millis,       \* what millis() returns
    lasttime,     \* last_time
    secondscount, \* seconds_count
    pc,           \* where the program stands
    now,          \* history: the time since setup, which does not wrap
    called,       \* history: the time of the last call of seconds_elapsed
    groups,       \* history: the groups begun
    groupsec,     \* history: the second in which the last one was begun
    segments,     \* history: the segments begun
    late          \* history: the whole seconds between two calls, added up

codeVars == <<millis, lasttime, secondscount, pc>>
history  == <<now, called, groups, groupsec, segments, late>>
vars     == <<codeVars, history>>

(* setup: last_time = millis(), at any reading. *)
Init ==
    /\ millis \in 0..WRAP - 1
    /\ lasttime = millis
    /\ secondscount = 0
    /\ pc = "between"
    /\ now = 0
    /\ called = 0
    /\ groups = 0
    /\ groupsec = 0
    /\ segments = 0
    /\ late = 0

-----------------------------------------------------------------------------
(* unsigned long: the difference of two readings is taken modulo WRAP.     *)
Minus(a, b) == IF a >= b THEN a - b ELSE a - b + WRAP

Diff    == Minus(millis, lasttime)
Elapsed == Diff \div SECOND     \* what seconds_elapsed returns
Rest    == Diff % SECOND

(* mutant: last_time = this_time *)
SecondsElapsedDrifting ==
    /\ secondscount' = secondscount + Elapsed
    /\ lasttime' = IF Elapsed > 0 THEN millis ELSE lasttime
    /\ called' = now
    /\ late' = late + (now - called) \div SECOND

(* mutant: last_time is not resynchronised *)
SecondsElapsedUnsynchronised ==
    /\ secondscount' = secondscount + Elapsed
    /\ UNCHANGED lasttime
    /\ called' = now
    /\ late' = late + (now - called) \div SECOND

(* seconds_elapsed: whole seconds since last_time are counted, and         *)
(* last_time moves on by them.                                             *)
SecondsElapsed ==
    /\ secondscount' = secondscount + Elapsed
    /\ lasttime' = IF Elapsed > 0 THEN Minus(millis, Rest) ELSE lasttime
    /\ called' = now
    /\ late' = late + (now - called) \div SECOND

(* process_script up to its loop: "preseed the real-time simulator with    *)
(* clock time".  The first second of a segment sends no group and does not *)
(* wait; an empty segment has no other.                                    *)
StartSegment ==
    /\ pc = "between"
    /\ segments < SEGCAP
    /\ SecondsElapsed
    /\ segments' = segments + 1
    /\ pc' \in {"wait", "between"}
    /\ UNCHANGED <<millis, now, groups, groupsec>>

(* while (!seconds_elapsed()): a turn that sees no second, and the one     *)
(* that does.                                                              *)
PollInVain ==
    /\ pc = "wait"
    /\ Elapsed = 0
    /\ SecondsElapsed
    /\ UNCHANGED <<millis, pc, now, groups, groupsec, segments>>

BeginGroup ==
    /\ pc = "wait"
    /\ Elapsed > 0
    /\ SecondsElapsed
    /\ groups' = groups + 1
    /\ groupsec' = now \div SECOND
    /\ pc' = "write"
    /\ UNCHANGED <<millis, now, segments>>

(* mutant: the time is taken again for the next second *)
EndGroupAskingTime ==
    /\ pc = "write"
    /\ SecondsElapsed
    /\ pc' \in {"wait", "between"}
    /\ UNCHANGED <<millis, now, groups, groupsec, segments>>

(* The group has been sent: another second of this segment, or its end. *)
EndGroup ==
    /\ pc = "write"
    /\ pc' \in {"wait", "between"}
    /\ UNCHANGED <<millis, lasttime, secondscount, history>>

(* A millisecond goes by. *)
Pass ==
    /\ now < NOWCAP
    /\ now + 1 - called <= MAXWORK
    /\ now' = now + 1
    /\ millis' = IF millis + 1 < WRAP THEN millis + 1 ELSE 0
    /\ UNCHANGED <<lasttime, secondscount, pc, called, groups, groupsec, segments, late>>

Next == StartSegment \/ PollInVain \/ BeginGroup \/ EndGroup \/ Pass

Spec == Init /\ [][Next]_vars

-----------------------------------------------------------------------------
ClockTypeOK ==
    /\ millis \in 0..WRAP - 1 /\ lasttime \in 0..WRAP - 1
    /\ secondscount \in Nat
    /\ pc \in {"between", "wait", "write"}
    /\ now \in Nat /\ called \in Nat /\ called <= now
    /\ groups \in Nat /\ groupsec \in Nat /\ segments \in Nat /\ late \in Nat

(* "keep track of seconds for unix-like time count" (gpssim.c:978): the    *)
(* count is that of the seconds gone by at the last call, exactly, though  *)
(* the clock wraps and calls come at any moment.                           *)
CountTellsTime == secondscount = called \div SECOND

(* "wait until next observed change of second on real time clock"          *)
(* (gpssim.c:2816): no two groups are begun in the same second, also when  *)
(* a segment ends between them.                                            *)
NoTwoInASecond == [][groups' > groups => now \div SECOND > groupsec]_vars

(* The program falls behind the clock by at most a second for each start   *)
(* of a segment, whose time() takes a second away from the loop, and by    *)
(* the seconds that went by while it did not ask: the loop takes however   *)
(* many there were for one.                                                *)
BehindOnlyWhenLate == secondscount - groups <= segments + late
=============================================================================
