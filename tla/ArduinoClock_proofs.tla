------------------------ MODULE ArduinoClock_proofs ------------------------
(***************************************************************************)
(* Theorems about ArduinoClock.  The invariant says that the difference    *)
(* seconds_elapsed computes is the true time since the last second it      *)
(* counted; the rest is division with remainder.                           *)
(***************************************************************************)
EXTENDS ArduinoClock, TLAPS

(* The seconds counted are those gone by at the last call. *)
Counted ==
    /\ SECOND * secondscount <= called
    /\ called < SECOND * secondscount + SECOND

(* What is left of the clock after the seconds counted. *)
Synchronised ==
    /\ now - called <= MAXWORK
    /\ Diff = now - SECOND * secondscount

ClockInv ==
    /\ ClockTypeOK
    /\ Counted
    /\ Synchronised
    /\ groupsec <= secondscount
    /\ BehindOnlyWhenLate

-----------------------------------------------------------------------------
(* Division by the length of a second. *)
LEMMA Division ==
  ASSUME NEW x \in Nat
  PROVE  /\ x \div SECOND \in Nat
         /\ x % SECOND \in 0..SECOND - 1
         /\ x = SECOND * (x \div SECOND) + (x % SECOND)
BY ClockAssumption

(* More of a length fit into more. *)
LEMMA Fewer ==
  ASSUME NEW a \in Nat, NEW b \in Nat, SECOND * a < SECOND * b
  PROVE  a < b
<1>1. SUFFICES ASSUME b <= a PROVE FALSE
  OBVIOUS
<1>2. PICK c \in Nat : a = b + c
  <2>1. a - b \in Nat /\ a = b + (a - b)
    BY <1>1
  <2> QED  BY <2>1
<1>3. SECOND * a = SECOND * b + SECOND * c /\ SECOND * c \in Nat /\ SECOND * b \in Nat
  BY <1>2, ClockAssumption
<1> QED  BY <1>3

(* The quotient is the only number that leaves a remainder. *)
LEMMA Quotient ==
  ASSUME NEW x \in Nat, NEW q \in Nat, SECOND * q <= x, x < SECOND * q + SECOND
  PROVE  x \div SECOND = q
<1> DEFINE d == x \div SECOND
<1>1. d \in Nat /\ SECOND * d <= x /\ x < SECOND * d + SECOND
  BY Division, ClockAssumption
<1> HIDE DEF d
<1>2. SECOND * (q + 1) = SECOND * q + SECOND /\ SECOND * (d + 1) = SECOND * d + SECOND
      /\ SECOND * q \in Nat /\ SECOND * d \in Nat /\ SECOND \in Nat
  BY <1>1, ClockAssumption
<1>3. SECOND * q < SECOND * (d + 1) /\ SECOND * d < SECOND * (q + 1)
  BY <1>1, <1>2
<1>4. q < d + 1 /\ d < q + 1
  BY <1>1, <1>3, Fewer
<1>5. d = q
  BY <1>1, <1>4
<1> QED  BY <1>5 DEF d

(* Differences of readings. *)
LEMMA MinusFacts ==
  ASSUME NEW a \in 0..WRAP - 1, NEW b \in 0..WRAP - 1
  PROVE  /\ Minus(a, b) \in 0..WRAP - 1
         /\ Minus(a, Minus(a, b)) = b
         /\ Minus(a, b) + 1 < WRAP => Minus(IF a + 1 < WRAP THEN a + 1 ELSE 0, b) = Minus(a, b) + 1
BY ClockAssumption DEF Minus

-----------------------------------------------------------------------------
(* What a call of seconds_elapsed does, whenever it comes. *)
LEMMA CallCounts ==
  ASSUME ClockInv, SecondsElapsed, UNCHANGED millis, UNCHANGED now
  PROVE  /\ Elapsed \in Nat /\ secondscount' = secondscount + Elapsed
         /\ lasttime' \in 0..WRAP - 1
         /\ called' = now /\ late' \in Nat
         /\ Counted'
         /\ Synchronised'
         /\ Elapsed <= (late' - late) + 1
<1> DEFINE D == now - SECOND * secondscount
           n == Elapsed
           r == Rest
           g == (now - called) \div SECOND
<1>1. /\ secondscount \in Nat /\ now \in Nat /\ called \in Nat /\ late \in Nat
      /\ called <= now /\ SECOND * secondscount \in Nat /\ SECOND \in Nat \ {0}
      /\ SECOND * secondscount <= called /\ called < SECOND * secondscount + SECOND
      /\ millis \in 0..WRAP - 1 /\ lasttime \in 0..WRAP - 1 /\ Diff = D
  BY ClockAssumption DEF ClockInv, ClockTypeOK, Counted, Synchronised
<1>2. D \in Nat /\ D \in 0..WRAP - 1
  <2>1. Diff \in 0..WRAP - 1
    BY <1>1, MinusFacts DEF Diff
  <2> QED  BY <1>1, <2>1
<1>3. n = D \div SECOND /\ r = D % SECOND
  BY <1>1 DEF Elapsed, Rest
<1>4. n \in Nat /\ r \in 0..SECOND - 1 /\ D = SECOND * n + r
  <2> HIDE DEF D
  <2> QED  BY <1>2, <1>3, Division
<1>5. /\ SECOND * (secondscount + n) = SECOND * secondscount + SECOND * n
      /\ SECOND * n \in Nat
  <2> HIDE DEF n
  <2> QED  BY <1>1, <1>4
<1>6. secondscount' = secondscount + n /\ called' = now
  BY DEF SecondsElapsed
<1>7. Counted'
  <2>1. SECOND * secondscount' = now - r
    <3> HIDE DEF n, r
    <3> QED  BY <1>1, <1>4, <1>5, <1>6
  <2> HIDE DEF r
  <2> QED  BY <1>1, <1>4, <1>6, <2>1 DEF Counted
<1>8. lasttime' \in 0..WRAP - 1 /\ Minus(millis, lasttime') = r
  <2>1. CASE n = 0
    <3>1. lasttime' = lasttime /\ r = D
      <4> HIDE DEF r, D
      <4>1. SECOND * 0 = 0
        BY <1>1
      <4>2. r = D
        BY <1>1, <1>2, <1>4, <2>1, <4>1
      <4>3. lasttime' = lasttime
        BY <2>1 DEF SecondsElapsed
      <4> QED  BY <4>2, <4>3
    <3> QED  BY <1>1, <3>1 DEF Diff
  <2>2. CASE n > 0
    <3>1. lasttime' = Minus(millis, r)
      BY <2>2 DEF SecondsElapsed
    <3>2. r \in 0..WRAP - 1
      <4> HIDE DEF r, n, D
      <4>1. r <= D /\ 0 <= r /\ r \in Int
        BY <1>1, <1>2, <1>4, <1>5
      <4> QED  BY <1>2, <4>1, ClockAssumption
    <3> HIDE DEF r
    <3> QED  BY <1>1, <3>1, <3>2, MinusFacts
  <2> HIDE DEF n
  <2> QED  BY <1>4, <2>1, <2>2
<1>9. Synchronised'
  <2>1. Diff' = r
    BY <1>8 DEF Diff
  <2>2. r = now - SECOND * secondscount'
    <3> HIDE DEF n, r
    <3> QED  BY <1>1, <1>4, <1>5, <1>6
  <2>3. now - called' <= MAXWORK
    BY <1>1, <1>6, ClockAssumption
  <2> QED  BY <2>1, <2>2, <2>3 DEF Synchronised
<1>10. late' \in Nat /\ n <= (late' - late) + 1
  <2>1. g \in Nat /\ now - called < SECOND * g + SECOND /\ SECOND * g \in Nat
    <3>1. now - called \in Nat
      BY <1>1
    <3> QED  BY <1>1, <3>1, Division
  <2>2. late' = late + g
    BY DEF SecondsElapsed
  <2>3. SECOND * (g + 2) = SECOND * g + SECOND + SECOND
    <3> HIDE DEF g
    <3> QED  BY <1>1, <2>1
  <2>4. SECOND * n < SECOND * (g + 2)
    <3> HIDE DEF g, n, r
    <3> QED  BY <1>1, <1>4, <1>5, <2>1, <2>3
  <2>5. n < g + 2
    <3> HIDE DEF g, n
    <3> QED  BY <1>4, <2>1, <2>4, Fewer
  <2> HIDE DEF g, n
  <2> QED  BY <1>1, <1>4, <2>1, <2>2, <2>5
<1> QED  BY <1>4, <1>6, <1>7, <1>8, <1>9, <1>10

(* What that means for how far behind the program is. *)
LEMMA Behind ==
  ASSUME NEW s \in Nat, NEW n \in Nat, NEW g \in Nat, NEW a \in Nat, NEW b \in Nat, NEW c \in Nat,
         s - g <= c + a, n <= (b - a) + 1
  PROVE  /\ (s + n) - g <= (c + 1) + b
         /\ (s + n) - (g + 1) <= c + b
OBVIOUS

(* With no call, only the time moves on. *)
LEMMA TimePasses ==
  ASSUME ClockInv, Pass
  PROVE  Synchronised' /\ millis' \in 0..WRAP - 1
<1>1. /\ now' = now + 1 /\ now + 1 - called <= MAXWORK /\ now \in Nat /\ called \in Nat
      /\ secondscount' = secondscount /\ lasttime' = lasttime /\ called' = called
      /\ millis' = (IF millis + 1 < WRAP THEN millis + 1 ELSE 0)
      /\ millis \in 0..WRAP - 1 /\ lasttime \in 0..WRAP - 1
      /\ SECOND * secondscount \in Nat
  BY ClockAssumption DEF ClockInv, ClockTypeOK, Pass
<1>2. Diff + 1 < WRAP /\ Diff = now - SECOND * secondscount
  BY <1>1, ClockAssumption DEF ClockInv, Counted, Synchronised
<1>3. Minus(millis', lasttime) = Diff + 1
  BY <1>1, <1>2, MinusFacts DEF Diff
<1>4. Diff' = now' - SECOND * secondscount'
  BY <1>1, <1>2, <1>3 DEF Diff
<1>5. millis' \in 0..WRAP - 1
  BY <1>1, ClockAssumption
<1> QED  BY <1>1, <1>4, <1>5 DEF Synchronised

LEMMA ClockInit == Init => ClockInv
<1> SUFFICES ASSUME Init PROVE ClockInv
  OBVIOUS
<1>1. ClockTypeOK /\ groupsec <= secondscount /\ BehindOnlyWhenLate
  BY ClockAssumption DEF Init, ClockTypeOK, BehindOnlyWhenLate
<1>2. SECOND * secondscount = 0 /\ Diff = 0
  BY ClockAssumption DEF Init, Diff, Minus
<1>3. Counted /\ Synchronised
  BY <1>2, ClockAssumption DEF Init, Counted, Synchronised
<1> QED  BY <1>1, <1>3 DEF ClockInv

LEMMA ClockStep ==
  ASSUME ClockInv, [Next]_vars
  PROVE  ClockInv'
<1>1. /\ millis \in 0..WRAP - 1 /\ lasttime \in 0..WRAP - 1 /\ secondscount \in Nat
      /\ now \in Nat /\ called \in Nat /\ called <= now
      /\ groups \in Nat /\ groupsec \in Nat /\ segments \in Nat /\ late \in Nat
      /\ pc \in {"between", "wait", "write"}
      /\ groupsec <= secondscount /\ secondscount - groups <= segments + late
  BY DEF ClockInv, ClockTypeOK, BehindOnlyWhenLate
<1>2. CASE StartSegment
  <2>1. /\ Elapsed \in Nat /\ secondscount' = secondscount + Elapsed /\ lasttime' \in 0..WRAP - 1
        /\ called' = now /\ late' \in Nat /\ Counted' /\ Synchronised'
        /\ Elapsed <= (late' - late) + 1
    BY <1>2, CallCounts DEF StartSegment
  <2>2. /\ millis' = millis /\ now' = now /\ groups' = groups /\ groupsec' = groupsec
        /\ segments' = segments + 1 /\ pc' \in {"between", "wait"}
    BY <1>2 DEF StartSegment
  <2>3. ClockTypeOK'
    BY <1>1, <2>1, <2>2 DEF ClockTypeOK
  <2>4. groupsec' <= secondscount' /\ secondscount' - groups' <= segments' + late'
    <3>1. groupsec' <= secondscount'
      BY <1>1, <2>1, <2>2
    <3>2. (secondscount + Elapsed) - groups <= (segments + 1) + late'
      BY <1>1, <2>1, Behind
    <3> QED  BY <2>1, <2>2, <3>1, <3>2
  <2> QED  BY <2>1, <2>3, <2>4 DEF ClockInv, BehindOnlyWhenLate
<1>3. CASE PollInVain
  <2>1. /\ secondscount' = secondscount + Elapsed /\ lasttime' \in 0..WRAP - 1
        /\ called' = now /\ late' \in Nat /\ Counted' /\ Synchronised'
        /\ Elapsed = 0
    BY <1>3, CallCounts DEF PollInVain
  <2>2. /\ millis' = millis /\ now' = now /\ groups' = groups /\ groupsec' = groupsec
        /\ segments' = segments /\ pc' = pc
    BY <1>3 DEF PollInVain
  <2>3. late' = late + (now - called) \div SECOND /\ (now - called) \div SECOND \in Nat
    <3>1. now - called \in Nat
      BY <1>1
    <3> QED  BY <1>3, <3>1, Division DEF PollInVain, SecondsElapsed
  <2>4. ClockTypeOK'
    BY <1>1, <2>1, <2>2 DEF ClockTypeOK
  <2>5. groupsec' <= secondscount' /\ secondscount' - groups' <= segments' + late'
    BY <1>1, <2>1, <2>2, <2>3
  <2> QED  BY <2>1, <2>4, <2>5 DEF ClockInv, BehindOnlyWhenLate
<1>4. CASE BeginGroup
  <2>1. /\ Elapsed \in Nat /\ secondscount' = secondscount + Elapsed /\ lasttime' \in 0..WRAP - 1
        /\ called' = now /\ late' \in Nat /\ Counted' /\ Synchronised'
        /\ Elapsed <= (late' - late) + 1
    BY <1>4, CallCounts DEF BeginGroup
  <2>2. /\ millis' = millis /\ now' = now /\ groups' = groups + 1
        /\ segments' = segments /\ pc' = "write" /\ groupsec' = now \div SECOND
    BY <1>4 DEF BeginGroup
  <2>3. groupsec' = secondscount'
    BY <1>1, <2>1, <2>2, Quotient DEF Counted
  <2>4. ClockTypeOK'
    BY <1>1, <2>1, <2>2, <2>3 DEF ClockTypeOK
  <2>5. groupsec' <= secondscount' /\ secondscount' - groups' <= segments' + late'
    <3>1. (secondscount + Elapsed) - (groups + 1) <= segments + late'
      BY <1>1, <2>1, Behind
    <3> QED  BY <2>1, <2>2, <2>3, <3>1
  <2> QED  BY <2>1, <2>4, <2>5 DEF ClockInv, BehindOnlyWhenLate
<1>5. CASE EndGroup
  BY <1>5 DEF EndGroup, history, ClockInv, ClockTypeOK, Counted, Synchronised, Diff,
              BehindOnlyWhenLate
<1>6. CASE Pass
  <2>1. Synchronised' /\ millis' \in 0..WRAP - 1
    BY <1>6, TimePasses
  <2>2. now' = now + 1
        /\ UNCHANGED <<lasttime, secondscount, pc, called, groups, groupsec, segments, late>>
    BY <1>6 DEF Pass
  <2>3. ClockTypeOK'
    BY <1>1, <2>1, <2>2 DEF ClockTypeOK
  <2> QED  BY <2>1, <2>2, <2>3 DEF ClockInv, Counted, BehindOnlyWhenLate
<1>7. CASE UNCHANGED vars
  BY <1>7 DEF vars, codeVars, history, ClockInv, ClockTypeOK, Counted, Synchronised, Diff,
              BehindOnlyWhenLate
<1> QED  BY <1>2, <1>3, <1>4, <1>5, <1>6, <1>7 DEF Next

(* The invariant holds for every clock that wraps no sooner than the       *)
(* longest time between two calls and a second more.                       *)
THEOREM ClockInvariant == Spec => []ClockInv
<1>1. ClockInv /\ [Next]_vars => ClockInv'
  BY ClockStep
<1> QED  BY <1>1, ClockInit, PTL DEF Spec

THEOREM ClockTypeCorrect == Spec => []ClockTypeOK
<1>1. ClockInv => ClockTypeOK
  BY DEF ClockInv
<1> QED  BY <1>1, ClockInvariant, PTL

(* seconds_count is the number of whole seconds at the last call.          *)
THEOREM CountCorrect == Spec => []CountTellsTime
<1>1. ClockInv => CountTellsTime
  BY Quotient DEF ClockInv, ClockTypeOK, Counted, CountTellsTime
<1> QED  BY <1>1, ClockInvariant, PTL

(* No two groups are begun in one second. *)
THEOREM OneByOne == Spec => NoTwoInASecond
<1>1. ASSUME ClockInv, [Next]_vars
      PROVE  groups' > groups => now \div SECOND > groupsec
  <2>1. CASE BeginGroup
    <3>1. Elapsed > 0 /\ now' = now
      BY <2>1 DEF BeginGroup
    <3>2. secondscount' = secondscount + Elapsed /\ Elapsed \in Nat /\ Counted' /\ called' = now
      BY <1>1, <2>1, CallCounts DEF BeginGroup
    <3>3. now \in Nat /\ secondscount \in Nat /\ groupsec \in Nat /\ groupsec <= secondscount
      BY <1>1 DEF ClockInv, ClockTypeOK
    <3>4. now \div SECOND = secondscount'
      BY <3>2, <3>3, Quotient DEF Counted
    <3> QED  BY <3>1, <3>2, <3>3, <3>4
  <2>2. CASE UNCHANGED groups
    BY <1>1, <2>2 DEF ClockInv, ClockTypeOK
  <2>3. BeginGroup \/ UNCHANGED groups
    BY <1>1 DEF Next, StartSegment, PollInVain, EndGroup, Pass, vars, history
  <2> QED  BY <2>1, <2>2, <2>3
<1> QED  BY <1>1, ClockInvariant, PTL DEF Spec, NoTwoInASecond

(* The program is behind by a second for each segment at most, and by the  *)
(* seconds in which it did not ask.                                        *)
THEOREM NotFarBehind == Spec => []BehindOnlyWhenLate
<1>1. ClockInv => BehindOnlyWhenLate
  BY DEF ClockInv
<1> QED  BY <1>1, ClockInvariant, PTL
=============================================================================
