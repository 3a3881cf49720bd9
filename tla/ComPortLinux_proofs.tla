------------------------ MODULE ComPortLinux_proofs ------------------------
(***************************************************************************)
(* Proofs about the Linux serial library, for any set of ports, failing or *)
(* not, any queue length and any rates.                                    *)
(***************************************************************************)
EXTENDS ComPortLinux, SequenceTheorems, TLAPS

(* The three outcomes of a read, as far as types go. *)
LEMMA ReadType ==
    ASSUME LinuxTypeOK, ReadDevice
    PROVE  /\ driver' \in [Ports -> Seq(Bytes)] /\ \A p \in Ports : Len(driver'[p]) <= QUEUE
           /\ datavail' \in [Ports -> -1..1]
           /\ buf' \in [Ports -> Bytes]
  <1>0. port \in Ports /\ driver[port] \in Seq(Bytes) /\ Len(driver[port]) <= QUEUE
        /\ QUEUE \in Nat
    BY LinuxAssumption DEF LinuxTypeOK
  <1>1. CASE driver[port] # <<>> /\ buf' = [buf EXCEPT ![port] = Head(driver[port])]
             /\ driver' = [driver EXCEPT ![port] = Tail(@)]
             /\ datavail' = [datavail EXCEPT ![port] = 1]
    <2>1. Head(driver[port]) \in Bytes /\ Tail(driver[port]) \in Seq(Bytes)
          /\ Len(Tail(driver[port])) = Len(driver[port]) - 1 /\ Len(driver[port]) \in Nat
      BY <1>0, <1>1, HeadTailProperties, LenProperties
    <2>2. QED
      BY <1>0, <1>1, <2>1 DEF LinuxTypeOK
  <1>2. CASE UNCHANGED <<buf, driver>>
             /\ \E n \in {0, -1} : datavail' = [datavail EXCEPT ![port] = n]
    BY <1>0, <1>2 DEF LinuxTypeOK
  <1>3. QED
    BY <1>1, <1>2 DEF ReadDevice

-----------------------------------------------------------------------------
(* Where the program stands and the port its call is about. *)
Standing ==
    /\ pc \in {"read", "reset", "again", "give", "poll", "install", "async", "flush", "set",
               "write"} => port \in open
    /\ pc = "open" => port \notin open

(* Once a port raises signals there is a handler for them, and for ever. *)
HandlerReady ==
    pc \in {"async", "flush"} \/ async # {} \/ sigio = 1 => handler \in Ports

(* open_com saves the settings before it changes them, and a port that is  *)
(* open is never saved again.                                              *)
SettingsKept ==
    \A p \in Ports :
        IF p \notin open \/ (port = p /\ pc \in {"install", "async", "flush"})
        THEN tio[p] = Original
        ELSE oldtio[p] = Original

(* A poll is about a port with nothing read ahead, so that a character     *)
(* that waited at the call waits in the driver's queue.                    *)
Polling ==
    /\ pc = "poll" /\ waited = 1 => driver[port] # <<>>
    /\ answer = "no" => waited = 0

(* Nothing is read ahead on a closed port, nor when a read is about to be  *)
(* made; a port that does not fail never records a failure.                *)
ReadAhead ==
    /\ \A p \in Ports \ open : datavail[p] = 0
    /\ pc \in {"install", "async", "flush", "set", "read", "again", "poll"} => datavail[port] = 0
    /\ \A p \in Sound : datavail[p] \in 0..1

LinuxInv == LinuxTypeOK /\ Standing /\ HandlerReady /\ SettingsKept /\ ReadAhead /\ Polling

(* Every step keeps the types. *)
LEMMA TypeStep == LinuxInv /\ [Next]_vars => LinuxTypeOK'
  <1> SUFFICES ASSUME LinuxInv, [Next]_vars PROVE LinuxTypeOK'
    OBVIOUS
  <1>1. ASSUME NEW p \in Ports, Arrive(p) PROVE LinuxTypeOK'
    <2>1. PICK b \in Bytes : driver' = [driver EXCEPT ![p] = Append(@, b)]
      BY <1>1 DEF Arrive
    <2>2. driver[p] \in Seq(Bytes) /\ Len(driver[p]) < QUEUE /\ QUEUE \in Nat
          /\ driver \in [Ports -> Seq(Bytes)]
      BY <1>1, LinuxAssumption DEF Arrive, LinuxInv, LinuxTypeOK
    <2>3. Append(driver[p], b) \in Seq(Bytes) /\ Len(Append(driver[p], b)) = Len(driver[p]) + 1
          /\ Len(driver[p]) \in Nat
      BY <2>2, AppendProperties, LenProperties
    <2>4. driver' \in [Ports -> Seq(Bytes)] /\ \A q \in Ports : Len(driver'[q]) <= QUEUE
      BY <2>1, <2>2, <2>3 DEF LinuxInv, LinuxTypeOK
    <2>5. QED
      BY <1>1, <2>4 DEF Arrive, LinuxInv, LinuxTypeOK, deviceVars, settings, inputs, lineVars, results
  <1>2. ASSUME SigHandler PROVE LinuxTypeOK'
    BY <1>2 DEF LinuxInv, LinuxTypeOK, Goto, deviceVars, settings, inputs, lineVars, results, SigHandler
  <1>3. ASSUME NEW p \in Ports, ReadCom(p) PROVE LinuxTypeOK'
    BY <1>3 DEF LinuxInv, LinuxTypeOK, Goto, deviceVars, settings, inputs, lineVars, results, ReadCom
  <1>4. ASSUME NEW p \in Ports, AvailCom(p) PROVE LinuxTypeOK'
    BY <1>4 DEF LinuxInv, LinuxTypeOK, Goto, deviceVars, settings, inputs, lineVars, results, AvailCom
  <1>5. ASSUME NEW p \in Ports, OpenCom(p) PROVE LinuxTypeOK'
    BY <1>5 DEF LinuxInv, LinuxTypeOK, Goto, deviceVars, settings, inputs, lineVars, results, OpenCom
  <1>6. ASSUME NEW p \in Ports, SendLine(p) PROVE LinuxTypeOK'
    <2>1. PICK line \in Lines : left' = line \o CrLf
      BY <1>6 DEF SendLine
    <2>2. line \in Seq(Bytes) /\ CrLf \in Seq(Bytes)
      BY LinuxAssumption
    <2>3. left' \in Seq(Bytes) /\ out' \in Seq(Bytes)
      BY <1>6, <2>1, <2>2, ConcatProperties, EmptySeq DEF SendLine
    <2>4. QED
      BY <1>6, <2>3 DEF SendLine, LinuxInv, LinuxTypeOK, deviceVars, settings, inputs, lineVars, results
  <1>7. ASSUME ReadSignalled PROVE LinuxTypeOK'
    BY <1>7, ReadType DEF ReadSignalled, LinuxInv, LinuxTypeOK, Goto, settings, lineVars, results
  <1>8. ASSUME ResetSignal PROVE LinuxTypeOK'
    <2>1. waitflag' \in [Ports -> 0..1]
      BY <1>8 DEF ResetSignal, LinuxInv, LinuxTypeOK
    <2>2. pc' \in {"again", "give"} /\ port' = port
      BY <1>8 DEF ResetSignal, Goto
    <2>3. QED
      BY <1>8, <2>1, <2>2 DEF ResetSignal, LinuxInv, LinuxTypeOK, deviceVars, settings, inputs, lineVars, results
  <1>9. ASSUME ReadAgain PROVE LinuxTypeOK'
    BY <1>9, ReadType DEF ReadAgain, LinuxInv, LinuxTypeOK, Goto, settings, lineVars, results
  <1>10. ASSUME GiveChar PROVE LinuxTypeOK'
    BY <1>10 DEF LinuxInv, LinuxTypeOK, Goto, deviceVars, settings, inputs, lineVars, results, GiveChar
  <1>11. ASSUME Poll PROVE LinuxTypeOK'
    BY <1>11, ReadType DEF Poll, LinuxInv, LinuxTypeOK, Goto, settings, lineVars, results
  <1>12. ASSUME OpenFails PROVE LinuxTypeOK'
    BY <1>12 DEF LinuxInv, LinuxTypeOK, Goto, deviceVars, settings, inputs, lineVars, results, OpenFails
  <1>13. ASSUME OpenDevice PROVE LinuxTypeOK'
    <2>1. used' \in 0..FDS
      BY <1>13, LinuxAssumption DEF OpenDevice, LinuxInv, LinuxTypeOK
    <2>2. open' \subseteq attached' /\ attached' \subseteq Ports /\ async' \subseteq attached'
      BY <1>13 DEF OpenDevice, LinuxInv, LinuxTypeOK
    <2>3. QED
      BY <1>13, <2>1, <2>2 DEF OpenDevice, LinuxInv, LinuxTypeOK, Goto, deviceVars, settings, inputs, lineVars, results
  <1>14. ASSUME InstallHandler PROVE LinuxTypeOK'
    BY <1>14 DEF LinuxInv, LinuxTypeOK, Goto, deviceVars, settings, inputs, lineVars, results, InstallHandler
  <1>15. ASSUME SetAsync PROVE LinuxTypeOK'
    BY <1>15 DEF SetAsync, Standing, LinuxInv, LinuxTypeOK, Goto, deviceVars, settings, inputs, lineVars, results
  <1>16. ASSUME Flush PROVE LinuxTypeOK'
    <2>1. PICK rate \in Rates, width \in Widths :
             /\ asked' = [asked EXCEPT ![port] = rate]
             /\ newtio' = [newtio EXCEPT
                             ![port] = @ \cup IF width = 8 THEN RateBits[rate] ELSE {}]
      BY <1>16 DEF Flush
    <2>2. RateBits[rate] \in SUBSET Nat /\ port \in Ports /\ newtio[port] \in SUBSET Nat
      BY LinuxAssumption DEF LinuxInv, LinuxTypeOK
    <2>3. asked' \in [Ports -> Rates] /\ newtio' \in [Ports -> SUBSET Nat]
      BY <2>1, <2>2 DEF LinuxInv, LinuxTypeOK
    <2>4. driver' = [driver EXCEPT ![port] = <<>>] /\ Len(<<>>) = 0 /\ <<>> \in Seq(Bytes)
          /\ QUEUE \in Nat
      BY <1>16, LinuxAssumption, EmptySeq DEF Flush
    <2>5. driver' \in [Ports -> Seq(Bytes)] /\ \A q \in Ports : Len(driver'[q]) <= QUEUE
      BY <2>2, <2>4 DEF LinuxInv, LinuxTypeOK
    <2>6. QED
      BY <1>16, <2>3, <2>5 DEF Flush, LinuxInv, LinuxTypeOK, Goto, deviceVars, settings, inputs, lineVars, results
  <1>17. ASSUME SetAttributes PROVE LinuxTypeOK'
    BY <1>17 DEF LinuxInv, LinuxTypeOK, Goto, deviceVars, settings, inputs, lineVars, results, SetAttributes
  <1>18. ASSUME CloseCom PROVE LinuxTypeOK'
    <2>1. PICK S \in SUBSET Ports : Close(S)
      BY <1>18 DEF CloseCom
    <2>2. QED
      BY <2>1 DEF Close, LinuxInv, LinuxTypeOK, deviceVars, settings, inputs, lineVars, results
  <1>19. ASSUME WriteChar PROVE LinuxTypeOK'
    <2>1. left \in Seq(Bytes) /\ left # <<>>
      BY <1>19 DEF WriteChar, LinuxInv, LinuxTypeOK
    <2>2. Head(left) \in Bytes /\ Tail(left) \in Seq(Bytes)
      BY <2>1, HeadTailProperties
    <2>3. Append(out, Head(left)) \in Seq(Bytes)
      BY <2>2, AppendProperties DEF LinuxInv, LinuxTypeOK
    <2>4. out' \in Seq(Bytes) /\ left' \in Seq(Bytes)
      BY <1>19, <2>1, <2>2, <2>3 DEF WriteChar, LinuxInv, LinuxTypeOK, lineVars
    <2>5. QED
      BY <1>19, <2>4 DEF WriteChar, LinuxInv, LinuxTypeOK, deviceVars, settings, inputs, lineVars, results
  <1>20. ASSUME LineSent PROVE LinuxTypeOK'
    BY <1>20 DEF LinuxInv, LinuxTypeOK, Goto, deviceVars, settings, inputs, lineVars, results, LineSent
  <1>21. ASSUME UNCHANGED vars PROVE LinuxTypeOK'
    BY <1>21 DEF LinuxInv, LinuxTypeOK, vars, deviceVars, settings, inputs, lineVars, results
  <1>22. QED
    BY <1>1, <1>2, <1>3, <1>4, <1>5, <1>6, <1>7, <1>8, <1>9, <1>10, <1>11, <1>12, <1>13, <1>14, <1>15, <1>16, <1>17, <1>18, <1>19, <1>20, <1>21 DEF Next

(* Every step keeps Standing. *)
LEMMA StandingStep == LinuxInv /\ [Next]_vars => Standing'
  <1> SUFFICES ASSUME LinuxInv, [Next]_vars PROVE Standing'
    OBVIOUS
  <1>1. ASSUME NEW p \in Ports, Arrive(p) PROVE Standing'
    BY <1>1 DEF Standing, LinuxInv, Goto, deviceVars, settings, inputs, lineVars, results, Arrive
  <1>2. ASSUME SigHandler PROVE Standing'
    BY <1>2 DEF Standing, LinuxInv, Goto, deviceVars, settings, inputs, lineVars, results, SigHandler
  <1>3. ASSUME NEW p \in Ports, ReadCom(p) PROVE Standing'
    BY <1>3 DEF Standing, LinuxInv, Goto, deviceVars, settings, inputs, lineVars, results, ReadCom
  <1>4. ASSUME NEW p \in Ports, AvailCom(p) PROVE Standing'
    BY <1>4 DEF Standing, LinuxInv, Goto, deviceVars, settings, inputs, lineVars, results, AvailCom
  <1>5. ASSUME NEW p \in Ports, OpenCom(p) PROVE Standing'
    BY <1>5 DEF Standing, LinuxInv, Goto, deviceVars, settings, inputs, lineVars, results, OpenCom
  <1>6. ASSUME NEW p \in Ports, SendLine(p) PROVE Standing'
    BY <1>6 DEF Standing, LinuxInv, Goto, deviceVars, settings, inputs, lineVars, results, SendLine
  <1>7. ASSUME ReadSignalled PROVE Standing'
    BY <1>7 DEF Standing, LinuxInv, Goto, deviceVars, settings, inputs, lineVars, results, ReadSignalled
  <1>8. ASSUME ResetSignal PROVE Standing'
    BY <1>8 DEF Standing, LinuxInv, Goto, deviceVars, settings, inputs, lineVars, results, ResetSignal
  <1>9. ASSUME ReadAgain PROVE Standing'
    BY <1>9 DEF Standing, LinuxInv, Goto, deviceVars, settings, inputs, lineVars, results, ReadAgain
  <1>10. ASSUME GiveChar PROVE Standing'
    BY <1>10 DEF Standing, LinuxInv, Goto, deviceVars, settings, inputs, lineVars, results, GiveChar
  <1>11. ASSUME Poll PROVE Standing'
    BY <1>11 DEF Standing, LinuxInv, Goto, deviceVars, settings, inputs, lineVars, results, Poll
  <1>12. ASSUME OpenFails PROVE Standing'
    BY <1>12 DEF Standing, LinuxInv, Goto, deviceVars, settings, inputs, lineVars, results, OpenFails
  <1>13. ASSUME OpenDevice PROVE Standing'
    BY <1>13 DEF Standing, LinuxInv, Goto, deviceVars, settings, inputs, lineVars, results, OpenDevice
  <1>14. ASSUME InstallHandler PROVE Standing'
    BY <1>14 DEF Standing, LinuxInv, Goto, deviceVars, settings, inputs, lineVars, results, InstallHandler
  <1>15. ASSUME SetAsync PROVE Standing'
    BY <1>15 DEF Standing, LinuxInv, Goto, deviceVars, settings, inputs, lineVars, results, SetAsync
  <1>16. ASSUME Flush PROVE Standing'
    BY <1>16 DEF Standing, LinuxInv, Goto, deviceVars, settings, inputs, lineVars, results, Flush
  <1>17. ASSUME SetAttributes PROVE Standing'
    BY <1>17 DEF Standing, LinuxInv, Goto, deviceVars, settings, inputs, lineVars, results, SetAttributes
  <1>18. ASSUME CloseCom PROVE Standing'
    BY <1>18 DEF Standing, LinuxInv, Goto, deviceVars, settings, inputs, lineVars, results, CloseCom, Close
  <1>19. ASSUME WriteChar PROVE Standing'
    BY <1>19 DEF Standing, LinuxInv, Goto, deviceVars, settings, inputs, lineVars, results, WriteChar
  <1>20. ASSUME LineSent PROVE Standing'
    BY <1>20 DEF Standing, LinuxInv, Goto, deviceVars, settings, inputs, lineVars, results, LineSent
  <1>21. ASSUME UNCHANGED vars PROVE Standing'
    BY <1>21 DEF LinuxInv, Standing, vars, deviceVars, settings, inputs, lineVars, results
  <1>22. QED
    BY <1>1, <1>2, <1>3, <1>4, <1>5, <1>6, <1>7, <1>8, <1>9, <1>10, <1>11, <1>12, <1>13, <1>14, <1>15, <1>16, <1>17, <1>18, <1>19, <1>20, <1>21 DEF Next

(* Every step keeps HandlerReady. *)
LEMMA HandlerStep == LinuxInv /\ [Next]_vars => HandlerReady'
  <1> SUFFICES ASSUME LinuxInv, [Next]_vars PROVE HandlerReady'
    OBVIOUS
  <1>1. ASSUME NEW p \in Ports, Arrive(p) PROVE HandlerReady'
    BY <1>1 DEF HandlerReady, LinuxInv, LinuxTypeOK, Goto, deviceVars, settings, inputs, lineVars, results, Arrive
  <1>2. ASSUME SigHandler PROVE HandlerReady'
    BY <1>2 DEF HandlerReady, LinuxInv, LinuxTypeOK, Goto, deviceVars, settings, inputs, lineVars, results, SigHandler
  <1>3. ASSUME NEW p \in Ports, ReadCom(p) PROVE HandlerReady'
    BY <1>3 DEF HandlerReady, LinuxInv, LinuxTypeOK, Goto, deviceVars, settings, inputs, lineVars, results, ReadCom
  <1>4. ASSUME NEW p \in Ports, AvailCom(p) PROVE HandlerReady'
    BY <1>4 DEF HandlerReady, LinuxInv, LinuxTypeOK, Goto, deviceVars, settings, inputs, lineVars, results, AvailCom
  <1>5. ASSUME NEW p \in Ports, OpenCom(p) PROVE HandlerReady'
    BY <1>5 DEF HandlerReady, LinuxInv, LinuxTypeOK, Goto, deviceVars, settings, inputs, lineVars, results, OpenCom
  <1>6. ASSUME NEW p \in Ports, SendLine(p) PROVE HandlerReady'
    BY <1>6 DEF HandlerReady, LinuxInv, LinuxTypeOK, Goto, deviceVars, settings, inputs, lineVars, results, SendLine
  <1>7. ASSUME ReadSignalled PROVE HandlerReady'
    BY <1>7 DEF HandlerReady, LinuxInv, LinuxTypeOK, Goto, deviceVars, settings, inputs, lineVars, results, ReadSignalled
  <1>8. ASSUME ResetSignal PROVE HandlerReady'
    BY <1>8 DEF HandlerReady, LinuxInv, LinuxTypeOK, Goto, deviceVars, settings, inputs, lineVars, results, ResetSignal
  <1>9. ASSUME ReadAgain PROVE HandlerReady'
    BY <1>9 DEF HandlerReady, LinuxInv, LinuxTypeOK, Goto, deviceVars, settings, inputs, lineVars, results, ReadAgain
  <1>10. ASSUME GiveChar PROVE HandlerReady'
    BY <1>10 DEF HandlerReady, LinuxInv, LinuxTypeOK, Goto, deviceVars, settings, inputs, lineVars, results, GiveChar
  <1>11. ASSUME Poll PROVE HandlerReady'
    BY <1>11 DEF HandlerReady, LinuxInv, LinuxTypeOK, Goto, deviceVars, settings, inputs, lineVars, results, Poll
  <1>12. ASSUME OpenFails PROVE HandlerReady'
    BY <1>12 DEF HandlerReady, LinuxInv, LinuxTypeOK, Goto, deviceVars, settings, inputs, lineVars, results, OpenFails
  <1>13. ASSUME OpenDevice PROVE HandlerReady'
    BY <1>13 DEF HandlerReady, LinuxInv, LinuxTypeOK, Goto, deviceVars, settings, inputs, lineVars, results, OpenDevice
  <1>14. ASSUME InstallHandler PROVE HandlerReady'
    BY <1>14 DEF HandlerReady, LinuxInv, LinuxTypeOK, Goto, deviceVars, settings, inputs, lineVars, results, InstallHandler
  <1>15. ASSUME SetAsync PROVE HandlerReady'
    BY <1>15 DEF HandlerReady, LinuxInv, LinuxTypeOK, Goto, deviceVars, settings, inputs, lineVars, results, SetAsync
  <1>16. ASSUME Flush PROVE HandlerReady'
    BY <1>16 DEF HandlerReady, LinuxInv, LinuxTypeOK, Goto, deviceVars, settings, inputs, lineVars, results, Flush
  <1>17. ASSUME SetAttributes PROVE HandlerReady'
    BY <1>17 DEF HandlerReady, LinuxInv, LinuxTypeOK, Goto, deviceVars, settings, inputs, lineVars, results, SetAttributes
  <1>18. ASSUME CloseCom PROVE HandlerReady'
    BY <1>18 DEF HandlerReady, LinuxInv, LinuxTypeOK, Goto, deviceVars, settings, inputs, lineVars, results, CloseCom, Close
  <1>19. ASSUME WriteChar PROVE HandlerReady'
    BY <1>19 DEF HandlerReady, LinuxInv, LinuxTypeOK, Goto, deviceVars, settings, inputs, lineVars, results, WriteChar
  <1>20. ASSUME LineSent PROVE HandlerReady'
    BY <1>20 DEF HandlerReady, LinuxInv, LinuxTypeOK, Goto, deviceVars, settings, inputs, lineVars, results, LineSent
  <1>21. ASSUME UNCHANGED vars PROVE HandlerReady'
    BY <1>21 DEF LinuxInv, HandlerReady, vars, deviceVars, settings, inputs, lineVars, results
  <1>22. QED
    BY <1>1, <1>2, <1>3, <1>4, <1>5, <1>6, <1>7, <1>8, <1>9, <1>10, <1>11, <1>12, <1>13, <1>14, <1>15, <1>16, <1>17, <1>18, <1>19, <1>20, <1>21 DEF Next

(* Every step keeps SettingsKept. *)
LEMMA SettingsStep == LinuxInv /\ [Next]_vars => SettingsKept'
  <1> SUFFICES ASSUME LinuxInv, [Next]_vars PROVE SettingsKept'
    OBVIOUS
  <1>1. ASSUME NEW p \in Ports, Arrive(p) PROVE SettingsKept'
    BY <1>1 DEF SettingsKept, Standing, LinuxInv, LinuxTypeOK, Goto, deviceVars, settings, inputs, lineVars, results, Arrive
  <1>2. ASSUME SigHandler PROVE SettingsKept'
    BY <1>2 DEF SettingsKept, Standing, LinuxInv, LinuxTypeOK, Goto, deviceVars, settings, inputs, lineVars, results, SigHandler
  <1>3. ASSUME NEW p \in Ports, ReadCom(p) PROVE SettingsKept'
    BY <1>3 DEF SettingsKept, Standing, LinuxInv, LinuxTypeOK, Goto, deviceVars, settings, inputs, lineVars, results, ReadCom
  <1>4. ASSUME NEW p \in Ports, AvailCom(p) PROVE SettingsKept'
    BY <1>4 DEF SettingsKept, Standing, LinuxInv, LinuxTypeOK, Goto, deviceVars, settings, inputs, lineVars, results, AvailCom
  <1>5. ASSUME NEW p \in Ports, OpenCom(p) PROVE SettingsKept'
    BY <1>5 DEF SettingsKept, Standing, LinuxInv, LinuxTypeOK, Goto, deviceVars, settings, inputs, lineVars, results, OpenCom
  <1>6. ASSUME NEW p \in Ports, SendLine(p) PROVE SettingsKept'
    BY <1>6 DEF SettingsKept, Standing, LinuxInv, LinuxTypeOK, Goto, deviceVars, settings, inputs, lineVars, results, SendLine
  <1>7. ASSUME ReadSignalled PROVE SettingsKept'
    BY <1>7 DEF SettingsKept, Standing, LinuxInv, LinuxTypeOK, Goto, deviceVars, settings, inputs, lineVars, results, ReadSignalled
  <1>8. ASSUME ResetSignal PROVE SettingsKept'
    BY <1>8 DEF SettingsKept, Standing, LinuxInv, LinuxTypeOK, Goto, deviceVars, settings, inputs, lineVars, results, ResetSignal
  <1>9. ASSUME ReadAgain PROVE SettingsKept'
    BY <1>9 DEF SettingsKept, Standing, LinuxInv, LinuxTypeOK, Goto, deviceVars, settings, inputs, lineVars, results, ReadAgain
  <1>10. ASSUME GiveChar PROVE SettingsKept'
    BY <1>10 DEF SettingsKept, Standing, LinuxInv, LinuxTypeOK, Goto, deviceVars, settings, inputs, lineVars, results, GiveChar
  <1>11. ASSUME Poll PROVE SettingsKept'
    BY <1>11 DEF SettingsKept, Standing, LinuxInv, LinuxTypeOK, Goto, deviceVars, settings, inputs, lineVars, results, Poll
  <1>12. ASSUME OpenFails PROVE SettingsKept'
    BY <1>12 DEF SettingsKept, Standing, LinuxInv, LinuxTypeOK, Goto, deviceVars, settings, inputs, lineVars, results, OpenFails
  <1>13. ASSUME OpenDevice PROVE SettingsKept'
    BY <1>13 DEF SettingsKept, Standing, LinuxInv, LinuxTypeOK, Goto, deviceVars, settings, inputs, lineVars, results, OpenDevice
  <1>14. ASSUME InstallHandler PROVE SettingsKept'
    BY <1>14 DEF SettingsKept, Standing, LinuxInv, LinuxTypeOK, Goto, deviceVars, settings, inputs, lineVars, results, InstallHandler
  <1>15. ASSUME SetAsync PROVE SettingsKept'
    BY <1>15 DEF SettingsKept, Standing, LinuxInv, LinuxTypeOK, Goto, deviceVars, settings, inputs, lineVars, results, SetAsync
  <1>16. ASSUME Flush PROVE SettingsKept'
    BY <1>16 DEF SettingsKept, Standing, LinuxInv, LinuxTypeOK, Goto, deviceVars, settings, inputs, lineVars, results, Flush
  <1>17. ASSUME SetAttributes PROVE SettingsKept'
    BY <1>17 DEF SettingsKept, Standing, LinuxInv, LinuxTypeOK, Goto, deviceVars, settings, inputs, lineVars, results, SetAttributes
  <1>18. ASSUME CloseCom PROVE SettingsKept'
    <2>1. PICK S \in SUBSET Ports : Close(S)
      BY <1>18 DEF CloseCom
    <2>2. \A p \in Ports : p \notin open => tio[p] = Original
      BY <2>1 DEF Close, SettingsKept, LinuxInv
    <2>3. \A p \in open : oldtio[p] = Original
      BY <2>1 DEF Close, SettingsKept, LinuxInv, LinuxTypeOK
    <2>4. QED
      BY <2>1, <2>2, <2>3 DEF Close, SettingsKept
  <1>19. ASSUME WriteChar PROVE SettingsKept'
    BY <1>19 DEF SettingsKept, Standing, LinuxInv, LinuxTypeOK, Goto, deviceVars, settings, inputs, lineVars, results, WriteChar
  <1>20. ASSUME LineSent PROVE SettingsKept'
    BY <1>20 DEF SettingsKept, Standing, LinuxInv, LinuxTypeOK, Goto, deviceVars, settings, inputs, lineVars, results, LineSent
  <1>21. ASSUME UNCHANGED vars PROVE SettingsKept'
    BY <1>21 DEF LinuxInv, SettingsKept, vars, deviceVars, settings, inputs, lineVars, results
  <1>22. QED
    BY <1>1, <1>2, <1>3, <1>4, <1>5, <1>6, <1>7, <1>8, <1>9, <1>10, <1>11, <1>12, <1>13, <1>14, <1>15, <1>16, <1>17, <1>18, <1>19, <1>20, <1>21 DEF Next

(* Every step keeps ReadAhead. *)
LEMMA ReadAheadStep == LinuxInv /\ [Next]_vars => ReadAhead'
  <1> SUFFICES ASSUME LinuxInv, [Next]_vars PROVE ReadAhead'
    OBVIOUS
  <1>1. ASSUME NEW p \in Ports, Arrive(p) PROVE ReadAhead'
    BY <1>1 DEF ReadAhead, Sound, Standing, LinuxInv, LinuxTypeOK, Goto, deviceVars, settings, inputs, lineVars, results, Arrive
  <1>2. ASSUME SigHandler PROVE ReadAhead'
    BY <1>2 DEF ReadAhead, Sound, Standing, LinuxInv, LinuxTypeOK, Goto, deviceVars, settings, inputs, lineVars, results, SigHandler
  <1>3. ASSUME NEW p \in Ports, ReadCom(p) PROVE ReadAhead'
    BY <1>3 DEF ReadAhead, Sound, Standing, LinuxInv, LinuxTypeOK, Goto, deviceVars, settings, inputs, lineVars, results, ReadCom
  <1>4. ASSUME NEW p \in Ports, AvailCom(p) PROVE ReadAhead'
    BY <1>4 DEF ReadAhead, Sound, Standing, LinuxInv, LinuxTypeOK, Goto, deviceVars, settings, inputs, lineVars, results, AvailCom
  <1>5. ASSUME NEW p \in Ports, OpenCom(p) PROVE ReadAhead'
    BY <1>5 DEF ReadAhead, Sound, Standing, LinuxInv, LinuxTypeOK, Goto, deviceVars, settings, inputs, lineVars, results, OpenCom
  <1>6. ASSUME NEW p \in Ports, SendLine(p) PROVE ReadAhead'
    BY <1>6 DEF ReadAhead, Sound, Standing, LinuxInv, LinuxTypeOK, Goto, deviceVars, settings, inputs, lineVars, results, SendLine
  <1>7. ASSUME ReadSignalled PROVE ReadAhead'
    <2>1. PICK n \in -1..1 : /\ datavail' = [datavail EXCEPT ![port] = n]
                             /\ n = -1 => port \in Failing
      BY <1>7 DEF ReadSignalled, ReadDevice
    <2>2. port \in open /\ port \in Ports /\ open' = open /\ port' = port
          /\ datavail \in [Ports -> -1..1]
      BY <1>7 DEF ReadSignalled, Standing, LinuxInv, LinuxTypeOK, Goto
    <2>3. pc' \in {"reset", "give", "idle"}
      BY <1>7 DEF ReadSignalled, Goto
    <2>4. \A p \in Ports \ open : datavail'[p] = 0
      BY <2>1, <2>2 DEF ReadAhead, LinuxInv
    <2>5. ASSUME NEW p \in Sound PROVE datavail'[p] \in 0..1
      BY <2>1, <2>2 DEF ReadAhead, LinuxInv, Sound
    <2>6. QED
      BY <2>2, <2>3, <2>4, <2>5 DEF ReadAhead
  <1>8. ASSUME ResetSignal PROVE ReadAhead'
    BY <1>8 DEF ReadAhead, Sound, Standing, LinuxInv, LinuxTypeOK, Goto, deviceVars, settings, inputs, lineVars, results, ResetSignal
  <1>9. ASSUME ReadAgain PROVE ReadAhead'
    <2>1. PICK n \in -1..1 : /\ datavail' = [datavail EXCEPT ![port] = n]
                             /\ n = -1 => port \in Failing
      BY <1>9 DEF ReadAgain, ReadDevice
    <2>2. port \in open /\ port \in Ports /\ open' = open /\ port' = port
          /\ datavail \in [Ports -> -1..1]
      BY <1>9 DEF ReadAgain, Standing, LinuxInv, LinuxTypeOK, Goto
    <2>3. pc' \in {"reset", "give", "idle"}
      BY <1>9 DEF ReadAgain, Goto
    <2>4. \A p \in Ports \ open : datavail'[p] = 0
      BY <2>1, <2>2 DEF ReadAhead, LinuxInv
    <2>5. ASSUME NEW p \in Sound PROVE datavail'[p] \in 0..1
      BY <2>1, <2>2 DEF ReadAhead, LinuxInv, Sound
    <2>6. QED
      BY <2>2, <2>3, <2>4, <2>5 DEF ReadAhead
  <1>10. ASSUME GiveChar PROVE ReadAhead'
    BY <1>10 DEF ReadAhead, Sound, Standing, LinuxInv, LinuxTypeOK, Goto, deviceVars, settings, inputs, lineVars, results, GiveChar
  <1>11. ASSUME Poll PROVE ReadAhead'
    <2>1. PICK n \in -1..1 : /\ datavail' = [datavail EXCEPT ![port] = n]
                             /\ n = -1 => port \in Failing
      BY <1>11 DEF Poll, ReadDevice
    <2>2. port \in open /\ port \in Ports /\ open' = open /\ port' = port
          /\ datavail \in [Ports -> -1..1]
      BY <1>11 DEF Poll, Standing, LinuxInv, LinuxTypeOK, Goto
    <2>3. pc' \in {"reset", "give", "idle"}
      BY <1>11 DEF Poll, Goto
    <2>4. \A p \in Ports \ open : datavail'[p] = 0
      BY <2>1, <2>2 DEF ReadAhead, LinuxInv
    <2>5. ASSUME NEW p \in Sound PROVE datavail'[p] \in 0..1
      BY <2>1, <2>2 DEF ReadAhead, LinuxInv, Sound
    <2>6. QED
      BY <2>2, <2>3, <2>4, <2>5 DEF ReadAhead
  <1>12. ASSUME OpenFails PROVE ReadAhead'
    BY <1>12 DEF ReadAhead, Sound, Standing, LinuxInv, LinuxTypeOK, Goto, deviceVars, settings, inputs, lineVars, results, OpenFails
  <1>13. ASSUME OpenDevice PROVE ReadAhead'
    BY <1>13 DEF ReadAhead, Sound, Standing, LinuxInv, LinuxTypeOK, Goto, deviceVars, settings, inputs, lineVars, results, OpenDevice
  <1>14. ASSUME InstallHandler PROVE ReadAhead'
    BY <1>14 DEF ReadAhead, Sound, Standing, LinuxInv, LinuxTypeOK, Goto, deviceVars, settings, inputs, lineVars, results, InstallHandler
  <1>15. ASSUME SetAsync PROVE ReadAhead'
    BY <1>15 DEF ReadAhead, Sound, Standing, LinuxInv, LinuxTypeOK, Goto, deviceVars, settings, inputs, lineVars, results, SetAsync
  <1>16. ASSUME Flush PROVE ReadAhead'
    BY <1>16 DEF ReadAhead, Sound, Standing, LinuxInv, LinuxTypeOK, Goto, deviceVars, settings, inputs, lineVars, results, Flush
  <1>17. ASSUME SetAttributes PROVE ReadAhead'
    BY <1>17 DEF ReadAhead, Sound, Standing, LinuxInv, LinuxTypeOK, Goto, deviceVars, settings, inputs, lineVars, results, SetAttributes
  <1>18. ASSUME CloseCom PROVE ReadAhead'
    BY <1>18 DEF ReadAhead, Sound, Standing, LinuxInv, LinuxTypeOK, Goto, deviceVars, settings, inputs, lineVars, results, CloseCom, Close
  <1>19. ASSUME WriteChar PROVE ReadAhead'
    BY <1>19 DEF ReadAhead, Sound, Standing, LinuxInv, LinuxTypeOK, Goto, deviceVars, settings, inputs, lineVars, results, WriteChar
  <1>20. ASSUME LineSent PROVE ReadAhead'
    BY <1>20 DEF ReadAhead, Sound, Standing, LinuxInv, LinuxTypeOK, Goto, deviceVars, settings, inputs, lineVars, results, LineSent
  <1>21. ASSUME UNCHANGED vars PROVE ReadAhead'
    BY <1>21 DEF LinuxInv, ReadAhead, Sound, vars, deviceVars, settings, inputs, lineVars, results
  <1>22. QED
    BY <1>1, <1>2, <1>3, <1>4, <1>5, <1>6, <1>7, <1>8, <1>9, <1>10, <1>11, <1>12, <1>13, <1>14, <1>15, <1>16, <1>17, <1>18, <1>19, <1>20, <1>21 DEF Next

(* Every step keeps Polling. *)
LEMMA PollingStep == LinuxInv /\ [Next]_vars => Polling'
  <1> SUFFICES ASSUME LinuxInv, [Next]_vars PROVE Polling'
    OBVIOUS
  <1>1. ASSUME NEW p \in Ports, Arrive(p) PROVE Polling'
    <2>1. PICK b \in Bytes : driver' = [driver EXCEPT ![p] = Append(@, b)]
      BY <1>1 DEF Arrive
    <2>2. driver[p] \in Seq(Bytes) /\ driver \in [Ports -> Seq(Bytes)]
      BY DEF LinuxInv, LinuxTypeOK
    <2>3. Append(driver[p], b) # <<>>
      BY <2>2, AppendProperties
    <2>4. pc = "poll" /\ waited = 1 => driver'[port] # <<>>
      BY <2>1, <2>2, <2>3 DEF LinuxInv, LinuxTypeOK, Polling
    <2>5. QED
      BY <1>1, <2>4 DEF Arrive, LinuxInv, Polling, deviceVars, settings, inputs, lineVars, results
  <1>2. ASSUME SigHandler PROVE Polling'
    BY <1>2 DEF Polling, LinuxInv, LinuxTypeOK, Goto, deviceVars, settings, inputs, lineVars, results, SigHandler
  <1>3. ASSUME NEW p \in Ports, ReadCom(p) PROVE Polling'
    BY <1>3 DEF Polling, LinuxInv, LinuxTypeOK, Goto, deviceVars, settings, inputs, lineVars, results, ReadCom
  <1>4. ASSUME NEW p \in Ports, AvailCom(p) PROVE Polling'
    BY <1>4 DEF AvailCom, Pending, InUse, Opening, Polling, ReadAhead, Standing, LinuxInv, LinuxTypeOK, deviceVars, settings, inputs, lineVars, results
  <1>5. ASSUME NEW p \in Ports, OpenCom(p) PROVE Polling'
    BY <1>5 DEF Polling, LinuxInv, LinuxTypeOK, Goto, deviceVars, settings, inputs, lineVars, results, OpenCom
  <1>6. ASSUME NEW p \in Ports, SendLine(p) PROVE Polling'
    BY <1>6 DEF Polling, LinuxInv, LinuxTypeOK, Goto, deviceVars, settings, inputs, lineVars, results, SendLine
  <1>7. ASSUME ReadSignalled PROVE Polling'
    BY <1>7 DEF ReadSignalled, ReadDevice, Polling, ReadAhead, Standing, LinuxInv, LinuxTypeOK, Goto, deviceVars, settings, inputs, lineVars, results
  <1>8. ASSUME ResetSignal PROVE Polling'
    BY <1>8 DEF Polling, LinuxInv, LinuxTypeOK, Goto, deviceVars, settings, inputs, lineVars, results, ResetSignal
  <1>9. ASSUME ReadAgain PROVE Polling'
    BY <1>9 DEF ReadAgain, ReadDevice, Polling, ReadAhead, Standing, LinuxInv, LinuxTypeOK, Goto, deviceVars, settings, inputs, lineVars, results
  <1>10. ASSUME GiveChar PROVE Polling'
    BY <1>10 DEF Polling, LinuxInv, LinuxTypeOK, Goto, deviceVars, settings, inputs, lineVars, results, GiveChar
  <1>11. ASSUME Poll PROVE Polling'
    BY <1>11 DEF Poll, ReadDevice, Polling, ReadAhead, Standing, LinuxInv, LinuxTypeOK, Goto, deviceVars, settings, inputs, lineVars, results
  <1>12. ASSUME OpenFails PROVE Polling'
    BY <1>12 DEF Polling, LinuxInv, LinuxTypeOK, Goto, deviceVars, settings, inputs, lineVars, results, OpenFails
  <1>13. ASSUME OpenDevice PROVE Polling'
    BY <1>13 DEF Polling, LinuxInv, LinuxTypeOK, Goto, deviceVars, settings, inputs, lineVars, results, OpenDevice
  <1>14. ASSUME InstallHandler PROVE Polling'
    BY <1>14 DEF Polling, LinuxInv, LinuxTypeOK, Goto, deviceVars, settings, inputs, lineVars, results, InstallHandler
  <1>15. ASSUME SetAsync PROVE Polling'
    BY <1>15 DEF Polling, LinuxInv, LinuxTypeOK, Goto, deviceVars, settings, inputs, lineVars, results, SetAsync
  <1>16. ASSUME Flush PROVE Polling'
    BY <1>16 DEF Polling, LinuxInv, LinuxTypeOK, Goto, deviceVars, settings, inputs, lineVars, results, Flush
  <1>17. ASSUME SetAttributes PROVE Polling'
    BY <1>17 DEF Polling, LinuxInv, LinuxTypeOK, Goto, deviceVars, settings, inputs, lineVars, results, SetAttributes
  <1>18. ASSUME CloseCom PROVE Polling'
    BY <1>18 DEF Polling, LinuxInv, LinuxTypeOK, Goto, deviceVars, settings, inputs, lineVars, results, CloseCom, Close
  <1>19. ASSUME WriteChar PROVE Polling'
    BY <1>19 DEF Polling, LinuxInv, LinuxTypeOK, Goto, deviceVars, settings, inputs, lineVars, results, WriteChar
  <1>20. ASSUME LineSent PROVE Polling'
    BY <1>20 DEF Polling, LinuxInv, LinuxTypeOK, Goto, deviceVars, settings, inputs, lineVars, results, LineSent
  <1>21. ASSUME UNCHANGED vars PROVE Polling'
    BY <1>21 DEF LinuxInv, Polling, vars, deviceVars, settings, inputs, lineVars, results
  <1>22. QED
    BY <1>1, <1>2, <1>3, <1>4, <1>5, <1>6, <1>7, <1>8, <1>9, <1>10, <1>11, <1>12, <1>13, <1>14, <1>15, <1>16, <1>17, <1>18, <1>19, <1>20, <1>21 DEF Next

(* LinuxInv is inductive. *)
THEOREM LinuxInvariant == Spec => []LinuxInv
  <1>1. Init => LinuxInv
    <2> SUFFICES ASSUME Init PROVE LinuxInv
      OBVIOUS
    <2>1. <<>> \in Seq(Bytes) /\ Len(<<>>) = 0 /\ QUEUE \in Nat /\ FDS \in Nat
      BY LinuxAssumption, EmptySeq
    <2>2. LinuxTypeOK
      BY <2>1 DEF Init, LinuxTypeOK, Original
    <2>3. Standing /\ HandlerReady /\ SettingsKept /\ ReadAhead /\ Polling
      BY DEF Init, Standing, HandlerReady, SettingsKept, ReadAhead, Sound, Polling
    <2>4. QED
      BY <2>2, <2>3 DEF LinuxInv
  <1>2. LinuxInv /\ [Next]_vars => LinuxInv'
    BY StandingStep, TypeStep, HandlerStep, SettingsStep, ReadAheadStep, PollingStep
       DEF LinuxInv
  <1>3. QED
    BY <1>1, <1>2, PTL DEF Spec

(* The variables keep their types and bounds, for any ports, rates and     *)
(* queue length: what LinuxTypeOK says of the library's static tables.     *)
THEOREM LinuxTypeCorrect == Spec => []LinuxTypeOK
  <1>1. LinuxInv => LinuxTypeOK
    BY DEF LinuxInv
  <1>2. QED
    BY <1>1, LinuxInvariant, PTL

(* SIGIO always finds a handler, whatever ports are opened and closed: the *)
(* order of sigaction and F_SETFL in open_com, and descriptors that are    *)
(* never closed, leave no moment for its default action.                   *)
THEOREM NoSignalKills == Spec => []NotKilledBySignal
  <1>1. LinuxInv => NotKilledBySignal
    BY DEF LinuxInv, HandlerReady, NotKilledBySignal
  <1>2. QED
    BY <1>1, LinuxInvariant, PTL

(* A port that is not open has the settings the program found it with,     *)
(* because open_com refuses a port that is open before it saves them.      *)
THEOREM RestoresSettings == Spec => []SettingsRestored
  <1>1. LinuxInv => SettingsRestored
    BY DEF LinuxInv, SettingsKept, SettingsRestored
  <1>2. QED
    BY <1>1, LinuxInvariant, PTL

(* avail_com sees every character that waited when it was called, with or  *)
(* without a signal of its own.                                            *)
THEOREM AvailCorrect == Spec => []AvailSeesWaiting
  <1>1. LinuxInv => AvailSeesWaiting
    BY DEF LinuxInv, Polling, AvailSeesWaiting
  <1>2. QED
    BY <1>1, LinuxInvariant, PTL

-----------------------------------------------------------------------------
(* Sequences.                                                              *)

(* Moving the first element of t to the end of s leaves their              *)
(* concatenation as it is.                                                 *)
LEMMA MoveHead ==
    ASSUME NEW S, NEW s \in Seq(S), NEW t \in Seq(S), t # <<>>
    PROVE  Append(s, Head(t)) \o Tail(t) = s \o t
  <1> DEFINE u == Append(s, Head(t))
             l == u \o Tail(t)
             r == s \o t
  <1>1. /\ Head(t) \in S /\ Tail(t) \in Seq(S) /\ Len(Tail(t)) = Len(t) - 1
        /\ \A i \in 1..Len(Tail(t)) : Tail(t)[i] = t[i + 1]
    BY HeadTailProperties
  <1>2. Len(s) \in Nat /\ Len(t) \in Nat \ {0} /\ Head(t) = t[1]
    BY LenProperties, EmptySeq
  <1>3. /\ u \in Seq(S) /\ Len(u) = Len(s) + 1 /\ u[Len(s) + 1] = t[1]
        /\ \A i \in 1..Len(s) : u[i] = s[i]
    BY <1>1, <1>2, AppendProperties
  <1>4. /\ l \in Seq(S) /\ Len(l) = Len(s) + Len(t)
        /\ \A i \in 1..(Len(s) + Len(t)) :
              l[i] = IF i <= Len(s) + 1 THEN u[i] ELSE Tail(t)[i - (Len(s) + 1)]
    <2> HIDE DEF u
    <2>1. /\ u \o Tail(t) \in Seq(S) /\ Len(u \o Tail(t)) = Len(u) + Len(Tail(t))
          /\ \A i \in 1..(Len(u) + Len(Tail(t))) :
                (u \o Tail(t))[i] = IF i <= Len(u) THEN u[i] ELSE Tail(t)[i - Len(u)]
      BY <1>1, <1>3, ConcatProperties
    <2>2. Len(u) + Len(Tail(t)) = Len(s) + Len(t)
      BY <1>1, <1>2, <1>3
    <2>3. QED
      BY <1>3, <2>1, <2>2
  <1>5. /\ r \in Seq(S) /\ Len(r) = Len(s) + Len(t)
        /\ \A i \in 1..(Len(s) + Len(t)) : r[i] = IF i <= Len(s) THEN s[i] ELSE t[i - Len(s)]
    BY <1>2, ConcatProperties
  <1>6. ASSUME NEW i \in 1..(Len(s) + Len(t)) PROVE l[i] = r[i]
    <2> HIDE DEF u, l, r
    <2>1. CASE i <= Len(s)
      BY <2>1, <1>2, <1>3, <1>4, <1>5
    <2>2. CASE i = Len(s) + 1
      BY <2>2, <1>2, <1>3, <1>4, <1>5
    <2>3. CASE i > Len(s) + 1
      <3>1. i - (Len(s) + 1) \in 1..Len(Tail(t)) /\ (i - (Len(s) + 1)) + 1 = i - Len(s)
        BY <2>3, <1>1, <1>2
      <3>2. QED
        BY <3>1, <2>3, <1>1, <1>2, <1>4, <1>5
    <2>4. QED
      BY <2>1, <2>2, <2>3, <1>2
  <1>7. QED
    <2> HIDE DEF u, l, r
    <2>1. l = r
      BY <1>4, <1>5, <1>6, SeqEqual
    <2>2. QED
      BY <2>1 DEF l, r, u

(* A sequence is its head before its tail. *)
LEMMA HeadBeforeTail ==
    ASSUME NEW S, NEW t \in Seq(S), t # <<>>
    PROVE  <<Head(t)>> \o Tail(t) = t
  <1>1. <<>> \in Seq(S) /\ Append(<<>>, Head(t)) = <<Head(t)>>
    BY EmptySeq, HeadTailProperties
  <1>2. QED
    BY <1>1, MoveHead, ConcatEmptySeq

(* What taking from, and adding to, a queue with one element before it     *)
(* does.                                                                   *)
LEMMA OneBefore ==
    ASSUME NEW S, NEW x \in S, NEW y \in S, NEW s \in Seq(S)
    PROVE  /\ <<x>> \o s \in Seq(S) /\ <<x>> \o s # <<>> /\ Len(<<x>> \o s) = Len(s) + 1
           /\ Head(<<x>> \o s) = x /\ Tail(<<x>> \o s) = s
           /\ <<x>> \o Append(s, y) = Append(<<x>> \o s, y)
  <1> DEFINE w == <<x>> \o s
  <1>1. <<x>> \in Seq(S) /\ Len(<<x>>) = 1 /\ <<x>>[1] = x /\ Len(s) \in Nat
    BY LenProperties
  <1>2. /\ w \in Seq(S) /\ Len(w) = Len(s) + 1
        /\ \A i \in 1..(Len(s) + 1) : w[i] = IF i <= 1 THEN x ELSE s[i - 1]
    BY <1>1, ConcatProperties
  <1>3. w # <<>> /\ Head(w) = x
    <2> HIDE DEF w
    <2>1. w # <<>>
      BY <1>1, <1>2, EmptySeq
    <2>2. Head(w) = w[1]
      BY <2>1, <1>2, LenProperties
    <2>3. QED
      BY <2>1, <2>2, <1>1, <1>2
  <1>4. Tail(w) = s
    <2> HIDE DEF w
    <2>1. /\ Tail(w) \in Seq(S) /\ Len(Tail(w)) = Len(s)
          /\ \A i \in 1..Len(s) : Tail(w)[i] = w[i + 1]
      BY <1>1, <1>2, <1>3, HeadTailProperties
    <2>2. \A i \in 1..Len(s) : w[i + 1] = s[i]
      BY <1>1, <1>2
    <2>3. QED
      BY <2>1, <2>2, SeqEqual
  <1>5. <<x>> \o Append(s, y) = Append(w, y)
    <2>1. Append(s, y) = s \o <<y>> /\ Append(w, y) = w \o <<y>> /\ <<y>> \in Seq(S)
      BY <1>2, AppendIsConcat
    <2>2. QED
      BY <2>1, <1>1, ConcatAssociative
  <1>6. QED
    BY <1>2, <1>3, <1>4, <1>5

-----------------------------------------------------------------------------
(* A line goes out with every character once and in order: a failed write  *)
(* moves nothing, a successful one moves one character.                    *)
THEOREM LinesWhole == Spec => LinesGoOutWhole
  <1>1. LinuxInv /\ [Next]_vars => (pc = "write" => out' \o left' = out \o left)
    <2> SUFFICES ASSUME LinuxInv, [Next]_vars, pc = "write"
                 PROVE  out' \o left' = out \o left
      OBVIOUS
    <2>1. CASE WriteChar
      <3>1. out \in Seq(Bytes) /\ left \in Seq(Bytes)
        BY DEF LinuxInv, LinuxTypeOK
      <3>2. CASE UNCHANGED lineVars
        BY <3>2 DEF lineVars
      <3>3. CASE out' = Append(out, Head(left)) /\ left' = Tail(left)
        <4>1. left # <<>>
          BY <2>1 DEF WriteChar
        <4>2. QED
          BY <3>1, <3>3, <4>1, MoveHead
      <3>4. QED
        BY <2>1, <3>2, <3>3 DEF WriteChar
    <2>2. CASE ~WriteChar
      <3>1. UNCHANGED lineVars
        BY <2>2 DEF Next, Arrive, SigHandler, ReadCom, AvailCom, OpenCom, SendLine,
                    ReadSignalled, ResetSignal, ReadAgain, GiveChar, Poll, OpenFails,
                    OpenDevice, InstallHandler, SetAsync, Flush, SetAttributes, CloseCom,
                    Close, LineSent, vars
      <3>2. QED
        BY <3>1 DEF lineVars
    <2>3. QED
      BY <2>1, <2>2
  <1>2. QED
    BY <1>1, LinuxInvariant, PTL DEF Spec, LinesGoOutWhole

-----------------------------------------------------------------------------
(* The refinement of SerialInput. *)
Same == /\ \A p \in Sound : Pending(p)' = Pending(p)
        /\ taken' = taken /\ InUse' = InUse

LEMMA SameStutters == Same => UNCHANGED Input!inputVars
  BY DEF Same, Input!inputVars

(* A read moves a character from the driver's queue to the one read ahead. *)
LEMMA ReadKeepsPending ==
    ASSUME LinuxInv, ReadDevice, pc \in {"read", "again", "poll"}, open' = open, port' = port,
           pc' \in {"reset", "give", "idle"}
    PROVE  \A p \in Sound : Pending(p)' = Pending(p)
  <1> SUFFICES ASSUME NEW p \in Sound PROVE Pending(p)' = Pending(p)
    OBVIOUS
  <1>0. /\ p \in Ports /\ p \notin Failing /\ datavail[port] = 0 /\ port \in Ports
        /\ driver \in [Ports -> Seq(Bytes)] /\ buf \in [Ports -> Bytes]
        /\ datavail \in [Ports -> -1..1]
    BY DEF LinuxInv, LinuxTypeOK, ReadAhead, Sound
  <1>1. ~Opening(p) /\ ~Opening(p)'
    BY DEF Opening
  <1>2. CASE p # port
    <2>1. datavail'[p] = datavail[p] /\ buf'[p] = buf[p] /\ driver'[p] = driver[p]
      BY <1>0, <1>2 DEF ReadDevice
    <2>2. QED
      BY <2>1, <1>1 DEF Pending, InUse
  <1>3. CASE p = port /\ driver[p] # <<>> /\ datavail' = [datavail EXCEPT ![port] = 1]
             /\ buf' = [buf EXCEPT ![port] = Head(driver[port])]
             /\ driver' = [driver EXCEPT ![port] = Tail(@)]
    <2>1. driver[p] \in Seq(Bytes)
      BY <1>0
    <2>2. datavail'[p] = 1 /\ buf'[p] = Head(driver[p]) /\ driver'[p] = Tail(driver[p])
      BY <1>0, <1>3
    <2>3. <<buf'[p]>> \o driver'[p] = <<>> \o driver[p]
      BY <1>3, <2>1, <2>2, HeadBeforeTail, ConcatEmptySeq
    <2>4. Pending(p) = IF p \in open THEN <<>> \o driver[p] ELSE <<>>
      BY <1>0, <1>1, <1>3 DEF Pending, InUse
    <2>5. Pending(p)' = IF p \in open THEN <<buf'[p]>> \o driver'[p] ELSE <<>>
      BY <1>1, <2>2 DEF Pending, InUse
    <2>6. QED
      BY <2>3, <2>4, <2>5
  <1>4. CASE p = port /\ datavail' = [datavail EXCEPT ![port] = 0] /\ UNCHANGED <<buf, driver>>
    BY <1>0, <1>1, <1>4 DEF Pending, InUse
  <1>5. QED
    BY <1>0, <1>2, <1>3, <1>4 DEF ReadDevice

(* No character is lost but as LostOnlyByReopening says. *)
NoneLost ==
    \A p \in Sound : Len(Pending(p))' < Len(Pending(p)) =>
        \/ pc = "give" /\ port = p /\ taken'[p] = Head(Pending(p))
        \/ p \notin open'
        \/ /\ p \in REOPENED /\ pc = "idle" /\ pc' = "idle" /\ port' = p
           /\ answer' = "none" /\ Pending(p)' = Tail(Pending(p))

Moves == NoneLost /\ (Input!InputNext \/ UNCHANGED Input!inputVars)

LEMMA PendingType ==
    ASSUME LinuxInv, NEW p \in Sound PROVE Pending(p) \in Seq(Bytes)
  <1>1. driver[p] \in Seq(Bytes) /\ buf[p] \in Bytes
    BY DEF LinuxInv, LinuxTypeOK, Sound
  <1>2. <<>> \o driver[p] = driver[p] /\ <<buf[p]>> \o driver[p] \in Seq(Bytes) /\ <<>> \in Seq(Bytes)
    BY <1>1, OneBefore, ConcatEmptySeq, EmptySeq
  <1>3. QED
    BY <1>1, <1>2 DEF Pending, InUse

LEMMA PendingLength ==
    ASSUME LinuxInv, NEW p \in Sound, Pending(p)' = Pending(p)
    PROVE  ~(Len(Pending(p))' < Len(Pending(p)))
  <1>1. Len(Pending(p)) \in Nat
    BY PendingType, LenProperties
  <1>2. QED
    BY <1>1

LEMMA SameMoves == ASSUME LinuxInv, Same PROVE Moves
  <1>1. NoneLost
    BY PendingLength DEF Same, NoneLost
  <1>2. QED
    BY <1>1, SameStutters DEF Moves

(* A refused open of a port that is open loses the character read ahead;   *)
(* no other step loses one.                                                *)
LEMMA InputStep ==
    ASSUME LinuxInv, [Next]_vars
    PROVE  Moves
  <1>1. ASSUME NEW p \in Ports, Arrive(p) PROVE Moves
    <2>1. PICK b \in Bytes : driver' = [driver EXCEPT ![p] = Append(@, b)]
      BY <1>1 DEF Arrive
    <2>2. /\ UNCHANGED <<open, port, pc, datavail, buf, taken>>
          /\ driver \in [Ports -> Seq(Bytes)] /\ Len(driver[p]) < QUEUE /\ QUEUE \in Nat
          /\ Len(driver[p]) \in Nat
      BY <1>1, LinuxAssumption, LenProperties DEF Arrive, LinuxInv, LinuxTypeOK, deviceVars, settings, inputs, lineVars, results
    <2>a. InUse' = InUse
      BY <2>2 DEF InUse, Opening
    <2>3. ASSUME NEW q \in Sound, q # p PROVE Pending(q)' = Pending(q)
      <3>1. driver'[q] = driver[q]
        BY <2>1, <2>2, <2>3 DEF Sound
      <3>2. QED
        BY <3>1, <2>2 DEF Pending, InUse, Opening
    <2>4. CASE p \notin Sound
      BY <2>2, <2>a, <2>3, <2>4, SameMoves DEF Same
    <2>5. CASE p \in Sound /\ ~(p \in open /\ ~Opening(p))
      <3>1. Pending(p)' = Pending(p)
        BY <2>2, <2>5 DEF Pending, InUse, Opening
      <3>2. QED
        BY <3>1, <2>2, <2>a, <2>3, SameMoves DEF Same
    <2>6. CASE p \in Sound /\ p \in open /\ ~Opening(p)
      <3>1. driver[p] \in Seq(Bytes) /\ buf[p] \in Bytes /\ datavail[p] \in 0..1
            /\ driver'[p] = Append(driver[p], b) /\ Append(driver[p], b) \in Seq(Bytes)
        BY <2>1, <2>2, <2>6, AppendProperties DEF LinuxInv, LinuxTypeOK, ReadAhead
      <3>2. ASSUME datavail[p] = 1
            PROVE  Pending(p)' = Append(Pending(p), b) /\ Len(Pending(p)) < QUEUE + 1
        <4>1. Pending(p) = <<buf[p]>> \o driver[p] /\ Pending(p)' = <<buf[p]>> \o driver'[p]
          BY <2>2, <2>6, <3>2 DEF Pending, InUse, Opening
        <4>2. QED
          BY <4>1, <3>1, <2>2, OneBefore
      <3>3. ASSUME datavail[p] = 0
            PROVE  Pending(p)' = Append(Pending(p), b) /\ Len(Pending(p)) < QUEUE + 1
        <4>1. Pending(p) = <<>> \o driver[p] /\ Pending(p)' = <<>> \o driver'[p]
          BY <2>2, <2>6, <3>3 DEF Pending, InUse, Opening
        <4>2. QED
          BY <4>1, <3>1, <2>2, ConcatEmptySeq
      <3>4. Pending(p)' = Append(Pending(p), b) /\ Len(Pending(p)) < QUEUE + 1
        BY <3>1, <3>2, <3>3
      <3>5. Input!Receive(p)
        <4>1. [q \in Sound |-> Pending(q)]'
                = [[q \in Sound |-> Pending(q)] EXCEPT ![p] = Append(@, b)]
          BY <3>4, <2>3, <2>6
        <4>2. QED
          BY <4>1, <3>4, <2>2, <2>a, <2>6 DEF Input!Receive
      <3>6. Input!InputNext
        BY <3>5, <2>6 DEF Input!InputNext
      <3>7. ASSUME NEW q \in Sound PROVE ~(Len(Pending(q))' < Len(Pending(q)))
        <4>1. Pending(q)' = Pending(q) \/ (q = p /\ Pending(q)' = Append(Pending(q), b))
          BY <2>3, <3>4
        <4>2. Pending(q) \in Seq(Bytes) /\ Len(Pending(q)) \in Nat /\ b \in Bytes
          BY PendingType, LenProperties
        <4>3. Len(Append(Pending(q), b)) = Len(Pending(q)) + 1
          BY <4>2, AppendProperties
        <4>4. QED
          BY <4>1, <4>2, <4>3
      <3>8. QED
        BY <3>6, <3>7 DEF Moves, NoneLost
    <2>7. QED
      BY <2>4, <2>5, <2>6
  <1>2. ASSUME SigHandler PROVE Same
    BY <1>2 DEF Same, Pending, InUse, Opening, Goto, deviceVars, settings, inputs, lineVars, results, SigHandler
  <1>3. ASSUME NEW p \in Ports, ReadCom(p) PROVE Same
    BY <1>3 DEF Same, Pending, InUse, Opening, Goto, deviceVars, settings, inputs, lineVars, results, ReadCom
  <1>4. ASSUME NEW p \in Ports, AvailCom(p) PROVE Same
    BY <1>4 DEF Same, Pending, InUse, Opening, Goto, deviceVars, settings, inputs, lineVars, results, AvailCom
  <1>5. ASSUME NEW p \in Ports, OpenCom(p) PROVE Moves
    <2>1. /\ pc = "idle" /\ port' = p /\ UNCHANGED <<open, driver, buf, taken>>
          /\ p \in open => p \in REOPENED
          /\ pc' = (IF p \in open THEN "idle" ELSE "open") /\ answer' = "none"
          /\ datavail' = [datavail EXCEPT ![p] = 0]
          /\ datavail \in [Ports -> -1..1] /\ driver \in [Ports -> Seq(Bytes)]
          /\ buf \in [Ports -> Bytes]
      BY <1>5 DEF OpenCom, LinuxInv, LinuxTypeOK, deviceVars, settings, inputs, lineVars, results
    <2>a. InUse' = InUse
      BY <2>1 DEF InUse, Opening
    <2>2. ASSUME NEW q \in Sound, q # p PROVE Pending(q)' = Pending(q)
      <3>1. datavail'[q] = datavail[q]
        BY <2>1, <2>2 DEF Sound
      <3>2. QED
        BY <3>1, <2>1, <2>2 DEF Pending, InUse, Opening
    <2>3. CASE p \notin Sound
      BY <2>1, <2>a, <2>2, <2>3, SameMoves DEF Same
    <2>4. CASE p \in Sound /\ (p \notin open \/ datavail[p] = 0)
      <3>1. Pending(p)' = Pending(p)
        BY <2>1, <2>4 DEF Pending, InUse, Opening
      <3>2. QED
        BY <2>1, <2>a, <2>2, <3>1, SameMoves DEF Same
    <2>5. CASE p \in Sound /\ p \in open /\ datavail[p] # 0
      <3>1. datavail[p] = 1 /\ driver[p] \in Seq(Bytes) /\ buf[p] \in Bytes
        BY <2>1, <2>5 DEF LinuxInv, ReadAhead
      <3>2. Pending(p) = <<buf[p]>> \o driver[p] /\ Pending(p)' = <<>> \o driver[p]
        BY <2>1, <2>5, <3>1 DEF Pending, InUse, Opening
      <3>3. Pending(p) # <<>> /\ Pending(p)' = Tail(Pending(p))
        BY <3>1, <3>2, OneBefore, ConcatEmptySeq
      <3>4. [q \in Sound |-> Pending(q)]' = [[q \in Sound |-> Pending(q)] EXCEPT ![p] = Tail(@)]
        BY <2>2, <3>3
      <3>5. Input!Drop(p)
        BY <2>1, <2>a, <2>5, <3>3, <3>4 DEF Input!Drop
      <3>6. \A q \in Sound : q # p => ~(Len(Pending(q))' < Len(Pending(q)))
        BY <2>2, PendingLength
      <3>7. NoneLost
        BY <2>1, <2>5, <3>3, <3>6 DEF NoneLost
      <3>8. QED
        BY <2>5, <3>5, <3>7 DEF Moves, Input!InputNext
    <2>6. QED
      BY <2>3, <2>4, <2>5
  <1>6. ASSUME NEW p \in Ports, SendLine(p) PROVE Same
    BY <1>6 DEF Same, Pending, InUse, Opening, Goto, deviceVars, settings, inputs, lineVars, results, SendLine
  <1>7. ASSUME ReadSignalled PROVE Same
    <2>1. ReadDevice /\ pc \in {"read", "again", "poll"} /\ open' = open /\ port' = port
          /\ pc' \in {"reset", "give", "idle"} /\ taken' = taken
      BY <1>7 DEF ReadSignalled, Goto, results
    <2>2. QED
      BY <2>1, ReadKeepsPending DEF Same, InUse, Opening
  <1>8. ASSUME ResetSignal PROVE Same
    BY <1>8 DEF Same, Pending, InUse, Opening, Goto, deviceVars, settings, inputs, lineVars, results, ResetSignal
  <1>9. ASSUME ReadAgain PROVE Same
    <2>1. ReadDevice /\ pc \in {"read", "again", "poll"} /\ open' = open /\ port' = port
          /\ pc' \in {"reset", "give", "idle"} /\ taken' = taken
      BY <1>9 DEF ReadAgain, Goto, results
    <2>2. QED
      BY <2>1, ReadKeepsPending DEF Same, InUse, Opening
  <1>10. ASSUME GiveChar PROVE Moves
    <2>1. /\ port \in open /\ port \in Ports /\ pc = "give" /\ pc' = "idle"
          /\ UNCHANGED <<open, port, driver, buf>>
          /\ datavail' = [datavail EXCEPT ![port] = 0]
          /\ datavail \in [Ports -> -1..1] /\ driver \in [Ports -> Seq(Bytes)]
          /\ buf \in [Ports -> Bytes] /\ taken \in [Ports -> Bytes]
      BY <1>10 DEF GiveChar, Standing, LinuxInv, LinuxTypeOK, Goto, deviceVars, settings, inputs, lineVars, results
    <2>a. InUse' = InUse /\ port \in InUse
      BY <2>1 DEF InUse, Opening
    <2>2. taken' = IF datavail[port] = 0 THEN taken ELSE [taken EXCEPT ![port] = buf[port]]
      BY <1>10 DEF GiveChar
    <2>3. ASSUME NEW q \in Sound, q # port PROVE Pending(q)' = Pending(q) /\ taken'[q] = taken[q]
      <3>1. datavail'[q] = datavail[q] /\ taken'[q] = taken[q]
        BY <2>1, <2>2, <2>3 DEF Sound
      <3>2. QED
        BY <3>1, <2>1 DEF Pending, InUse, Opening
    <2>4. CASE port \notin Sound
      <3>1. UNCHANGED Input!inputVars
        BY <2>a, <2>3, <2>4 DEF Input!inputVars
      <3>2. NoneLost
        BY <2>3, <2>4, PendingLength DEF NoneLost
      <3>3. QED
        BY <3>1, <3>2 DEF Moves
    <2>5. CASE port \in Sound /\ datavail[port] = 0
      <3>1. Pending(port)' = Pending(port)
        BY <2>1, <2>5 DEF Pending, InUse, Opening
      <3>2. QED
        BY <3>1, <2>1, <2>a, <2>2, <2>3, <2>5, SameMoves DEF Same
    <2>6. CASE port \in Sound /\ datavail[port] # 0
      <3>1. datavail[port] = 1 /\ driver[port] \in Seq(Bytes) /\ buf[port] \in Bytes
        BY <2>1, <2>6 DEF LinuxInv, ReadAhead
      <3>2. Pending(port) = <<buf[port]>> \o driver[port] /\ Pending(port)' = <<>> \o driver[port]
        BY <3>1, <2>1 DEF Pending, InUse, Opening
      <3>3. Pending(port) # <<>> /\ Head(Pending(port)) = buf[port]
            /\ Pending(port)' = Tail(Pending(port))
        BY <3>1, <3>2, OneBefore, ConcatEmptySeq
      <3>4. PICK p \in Sound : p = port
        BY <2>6
      <3>5. \A q \in Sound :
               /\ Pending(q)' = IF q = p THEN Tail(Pending(p)) ELSE Pending(q)
               /\ taken'[q] = IF q = p THEN Head(Pending(p)) ELSE taken[q]
        <4>1. taken'[port] = buf[port]
          BY <2>1, <2>2, <2>6
        <4>2. ASSUME NEW q \in Sound, q = p
              PROVE  Pending(q)' = Tail(Pending(p)) /\ taken'[q] = Head(Pending(p))
          <5>1. q = port /\ p = q
            BY <3>4, <4>2
          <5>2. Pending(q)' = Pending(port)'
            BY <5>1, <2>1 DEF Pending, InUse, Opening
          <5>3. QED
            BY <5>1, <5>2, <3>3, <4>1
        <4>3. ASSUME NEW q \in Sound, q # p
              PROVE  Pending(q)' = Pending(q) /\ taken'[q] = taken[q]
          BY <4>3, <3>4, <2>3
        <4>4. QED
          BY <4>2, <4>3
      <3>6. Input!Take(p)
        BY <2>a, <3>3, <3>4, <3>5 DEF Input!Take
      <3>7. NoneLost
        <4>1. \A q \in Sound : q # p => ~(Len(Pending(q))' < Len(Pending(q)))
          BY <2>3, <3>4, PendingLength
        <4>2. taken'[p] = Head(Pending(p)) /\ pc = "give" /\ port = p
          BY <2>1, <3>4, <3>5
        <4>3. QED
          BY <4>1, <4>2 DEF NoneLost
      <3>8. QED
        BY <3>6, <3>7 DEF Moves, Input!InputNext
    <2>7. QED
      BY <2>4, <2>5, <2>6
  <1>11. ASSUME Poll PROVE Same
    <2>1. ReadDevice /\ pc \in {"read", "again", "poll"} /\ open' = open /\ port' = port
          /\ pc' \in {"reset", "give", "idle"} /\ taken' = taken
      BY <1>11 DEF Poll, Goto, results
    <2>2. QED
      BY <2>1, ReadKeepsPending DEF Same, InUse, Opening
  <1>12. ASSUME OpenFails PROVE Same
    BY <1>12 DEF OpenFails, Standing, LinuxInv, Same, Pending, InUse, Opening, Goto, deviceVars, settings, inputs, lineVars, results
  <1>13. ASSUME OpenDevice PROVE Same
    <2>1. /\ pc = "open" /\ pc' = "install" /\ port' = port /\ open' = open \cup {port}
          /\ UNCHANGED <<driver, buf, datavail, taken>>
      BY <1>13 DEF OpenDevice, Goto, deviceVars, settings, inputs, lineVars, results
    <2>2. QED
      BY <2>1 DEF Same, Pending, InUse, Opening
  <1>14. ASSUME InstallHandler PROVE Same
    BY <1>14 DEF Same, Pending, InUse, Opening, Goto, deviceVars, settings, inputs, lineVars, results, InstallHandler
  <1>15. ASSUME SetAsync PROVE Same
    BY <1>15 DEF Same, Pending, InUse, Opening, Goto, deviceVars, settings, inputs, lineVars, results, SetAsync
  <1>16. ASSUME Flush PROVE Moves
    <2>1. /\ pc = "flush" /\ pc' = "set" /\ port' = port /\ datavail[port] = 0
          /\ driver' = [driver EXCEPT ![port] = <<>>] /\ port \in Ports
          /\ driver \in [Ports -> Seq(Bytes)] /\ UNCHANGED <<open, buf, datavail, taken>>
      BY <1>16 DEF Flush, ReadAhead, LinuxInv, LinuxTypeOK, Goto, deviceVars, settings, inputs, lineVars, results
    <2>2. ASSUME NEW q \in Sound PROVE Pending(q)' = Pending(q)
      <3>1. CASE q = port
        <4>1. Pending(q) = <<>> /\ driver'[q] = <<>> /\ datavail'[q] = 0
          BY <3>1, <2>1 DEF Pending, InUse, Opening
        <4>2. <<>> \o <<>> = <<>>
          BY EmptySeq, ConcatEmptySeq
        <4>3. Pending(q)' = IF q \in open THEN <<>> \o <<>> ELSE <<>>
          BY <4>1, <3>1, <2>1 DEF Pending, InUse, Opening
        <4>4. QED
          BY <4>1, <4>2, <4>3
      <3>2. CASE q # port
        <4>1. driver'[q] = driver[q]
          BY <3>2, <2>1 DEF Sound
        <4>2. QED
          BY <4>1, <3>2, <2>1 DEF Pending, InUse, Opening
      <3>3. QED
        BY <3>1, <3>2
    <2>3. InUse' = InUse \cup (open \cap {port})
      BY <2>1 DEF InUse, Opening
    <2>4. CASE port \in Sound \cap open
      <3>1. PICK p \in Sound : p = port
        BY <2>4
      <3>2. Input!Open(p)
        BY <2>1, <2>2, <2>3, <2>4, <3>1 DEF Input!Open
      <3>3. NoneLost
        BY <2>2, PendingLength DEF NoneLost
      <3>4. QED
        BY <3>2, <3>3 DEF Moves, Input!InputNext
    <2>5. CASE port \notin Sound \cap open
      <3>1. UNCHANGED Input!inputVars
        BY <2>1, <2>2, <2>3, <2>5 DEF Input!inputVars
      <3>2. NoneLost
        BY <2>2, PendingLength DEF NoneLost
      <3>3. QED
        BY <3>1, <3>2 DEF Moves
    <2>6. QED
      BY <2>4, <2>5
  <1>17. ASSUME SetAttributes PROVE Same
    BY <1>17 DEF Same, Pending, InUse, Opening, Goto, deviceVars, settings, inputs, lineVars, results, SetAttributes
  <1>18. ASSUME CloseCom PROVE Moves
    <2>1. PICK S \in SUBSET Ports : Close(S)
      BY <1>18 DEF CloseCom
    <2>2. /\ pc = "idle" /\ UNCHANGED <<pc, port, driver, buf, taken>> /\ open' = open \ S
          /\ datavail' = [p \in Ports |-> IF p \in S \cap open THEN 0 ELSE datavail[p]]
      BY <2>1 DEF Close, deviceVars, settings, inputs, lineVars, results
    <2>3. \A q \in Sound : Pending(q)' = IF q \in S \cap Sound THEN <<>> ELSE Pending(q)
      <3>1. ASSUME NEW q \in Sound, q \in S PROVE Pending(q)' = <<>>
        BY <3>1, <2>2 DEF Pending, InUse
      <3>2. ASSUME NEW q \in Sound, q \notin S PROVE Pending(q)' = Pending(q)
        <4>1. datavail'[q] = datavail[q]
          BY <3>2, <2>2 DEF Sound
        <4>2. QED
          BY <4>1, <3>2, <2>2 DEF Pending, InUse, Opening
      <3>3. QED
        BY <3>1, <3>2
    <2>4. Input!Release
      <3>1. InUse' = InUse \ S
        BY <2>2 DEF InUse, Opening
      <3>2. S \cap Sound \in SUBSET (Sound \ (Sound \cap InUse'))
        BY <3>1
      <3>3. (Sound \cap InUse') \in SUBSET (Sound \cap InUse)
        BY <3>1
      <3>4. [q \in Sound |-> Pending(q)]'
              = [q \in Sound |-> IF q \in S \cap Sound THEN <<>> ELSE [r \in Sound |-> Pending(r)][q]]
        BY <2>3
      <3>5. QED
        BY <2>2, <3>2, <3>3, <3>4 DEF Input!Release
    <2>5. NoneLost
      <3>1. \A q \in Sound \ S : ~(Len(Pending(q))' < Len(Pending(q)))
        BY <2>3, PendingLength
      <3>2. QED
        BY <2>2, <3>1 DEF NoneLost
    <2>6. QED
      BY <2>4, <2>5 DEF Moves, Input!InputNext
  <1>19. ASSUME WriteChar PROVE Same
    BY <1>19 DEF Same, Pending, InUse, Opening, Goto, deviceVars, settings, inputs, lineVars, results, WriteChar
  <1>20. ASSUME LineSent PROVE Same
    BY <1>20 DEF Same, Pending, InUse, Opening, Goto, deviceVars, settings, inputs, lineVars, results, LineSent
  <1>21. ASSUME UNCHANGED vars PROVE Same
    BY <1>21 DEF Same, Pending, InUse, Opening, vars, deviceVars, settings, inputs, lineVars, results
  <1>22. QED
    BY <1>1, <1>2, <1>3, <1>4, <1>5, <1>6, <1>7, <1>8, <1>9, <1>10, <1>11, <1>12, <1>13, <1>14,
       <1>15, <1>16, <1>17, <1>18, <1>19, <1>20, <1>21, SameMoves DEF Next

(* The library implements SerialInput for every port that does not fail:   *)
(* with one signal handler for all ports, each character that came in is   *)
(* given once and in order, unless an open port is opened again, which can *)
(* lose the character that was next.                                       *)
THEOREM InputOnce == Spec => ImplementsInput
  <1>1. Init => Input!InputInit
    <2> SUFFICES ASSUME Init PROVE Input!InputInit
      OBVIOUS
    <2>1. \A p \in Sound : Pending(p) = <<>> /\ taken[p] \in Bytes
      BY DEF Init, Pending, InUse, Sound
    <2>2. InUse = {}
      BY DEF Init, InUse
    <2>3. QED
      BY <2>1, <2>2 DEF Input!InputInit
  <1>2. LinuxInv /\ [Next]_vars => [Input!InputNext]_(Input!inputVars)
    BY InputStep DEF Moves
  <1>3. QED
    BY <1>1, <1>2, LinuxInvariant, PTL DEF Spec, ImplementsInput, Input!InputSpec

(* And nothing else loses a character: neither another port's calls nor    *)
(* the port's own reads and polls.                                         *)
THEOREM LossesKnown == Spec => LostOnlyByReopening
  <1>1. LinuxInv /\ [Next]_vars => [NoneLost]_vars
    BY InputStep DEF Moves
  <1>2. QED
    BY <1>1, LinuxInvariant, PTL DEF Spec, LostOnlyByReopening, NoneLost

-----------------------------------------------------------------------------
(* A port between its open() and its tcsetattr. *)
Setting(p) == port = p /\ pc \in {"install", "async", "flush", "set"}

(* Every rate asked for stands for the same bits: a program that opens its *)
(* ports at one rate, as GPSSIM does.                                      *)
OneRate == Widths \subseteq {8} /\ \A r, q \in Rates : RateBits[r] = RateBits[q]

(* What is or-ed into newtio is then what is in it already. *)
RateKept ==
    /\ \A p \in Ports : newtio[p] \in {{}, RateBits[asked[p]]}
    /\ pc = "set" => newtio[port] = RateBits[asked[port]]
    /\ \A p \in open : Setting(p) \/ tio[p] = RateBits[asked[p]]

LEMMA RateKeptStep ==
    ASSUME OneRate, LinuxInv, RateKept, [Next]_vars PROVE RateKept'
  <1>1. ASSUME Flush PROVE RateKept'
    <2>1. PICK rate \in Rates, width \in Widths :
              /\ asked' = [asked EXCEPT ![port] = rate]
              /\ newtio' = [newtio EXCEPT ![port] =
                               @ \cup IF width = 8 THEN RateBits[rate] ELSE {}]
      BY <1>1 DEF Flush
    <2>2. /\ port \in Ports /\ port \in open /\ pc' = "set" /\ port' = port
          /\ asked \in [Ports -> Rates] /\ newtio \in [Ports -> SUBSET Nat]
          /\ UNCHANGED <<open, tio>>
      BY <1>1 DEF Flush, Goto, LinuxInv, LinuxTypeOK, Standing
    <2>3. asked'[port] = rate /\ newtio'[port] = newtio[port] \cup RateBits[rate]
      BY <2>1, <2>2 DEF OneRate
    <2>4. newtio'[port] = RateBits[asked'[port]]
      BY <2>2, <2>3 DEF RateKept, OneRate
    <2>5. \A p \in Ports \ {port} : asked'[p] = asked[p] /\ newtio'[p] = newtio[p]
      BY <2>1, <2>2
    <2>6. \A p \in open : p # port => tio[p] = RateBits[asked[p]] /\ p \in Ports
      BY DEF RateKept, Setting, LinuxInv, LinuxTypeOK
    <2>7. QED
      BY <2>2, <2>4, <2>5, <2>6 DEF RateKept, Setting
  <1>2. ASSUME SetAttributes PROVE RateKept'
    <2>1. /\ port \in Ports /\ tio \in [Ports -> SUBSET Int] /\ open \subseteq Ports
          /\ pc = "set" /\ pc' = "idle" /\ tio' = [tio EXCEPT ![port] = newtio[port]]
          /\ UNCHANGED <<open, newtio, asked>>
      BY <1>2 DEF SetAttributes, Goto, LinuxInv, LinuxTypeOK
    <2>2. QED
      BY <2>1 DEF RateKept, Setting
  <1>3. ASSUME CloseCom PROVE RateKept'
    <2>1. PICK S \in SUBSET Ports : Close(S)
      BY <1>3 DEF CloseCom
    <2>2. /\ pc = "idle" /\ open' = open \ S /\ open \subseteq Ports
          /\ \A p \in open' : tio'[p] = tio[p]
          /\ UNCHANGED <<newtio, asked, pc, port>>
      BY <2>1 DEF Close, LinuxInv, LinuxTypeOK
    <2>3. QED
      BY <2>2 DEF RateKept, Setting
  <1>4. ASSUME OpenFails \/ OpenDevice \/ InstallHandler \/ SetAsync PROVE RateKept'
    <2>1. /\ pc' # "set" /\ UNCHANGED <<tio, newtio, asked>> /\ port' = port
          /\ \A p \in open' : (p \in open /\ ~Setting(p)) \/ Setting(p)'
      BY <1>4 DEF OpenFails, OpenDevice, InstallHandler, SetAsync, Goto, settings, deviceVars,
                  Setting, LinuxInv, Standing
    <2>2. QED
      BY <2>1 DEF RateKept
  <1>5. ASSUME NEW p \in Ports, ReadCom(p) \/ AvailCom(p) \/ OpenCom(p) \/ SendLine(p)
        PROVE  RateKept'
    <2>1. /\ pc = "idle" /\ pc' \notin {"install", "async", "flush", "set"}
          /\ UNCHANGED <<open, tio, newtio, asked>>
      BY <1>5 DEF ReadCom, AvailCom, OpenCom, SendLine, settings
    <2>2. QED
      BY <2>1 DEF RateKept, Setting
  <1>6. ASSUME ReadSignalled \/ ResetSignal \/ ReadAgain \/ GiveChar \/ Poll \/ WriteChar \/ LineSent
        PROVE  RateKept'
    <2>1. /\ pc \notin {"install", "async", "flush", "set"}
          /\ pc' \notin {"install", "async", "flush", "set"}
          /\ UNCHANGED <<open, tio, newtio, asked>>
      BY <1>6 DEF ReadSignalled, ResetSignal, ReadAgain, GiveChar, Poll, WriteChar, LineSent,
                  Goto, settings
    <2>2. QED
      BY <2>1 DEF RateKept, Setting
  <1>7. ASSUME (\E p \in Ports : Arrive(p)) \/ SigHandler \/ UNCHANGED vars PROVE RateKept'
    <2>1. UNCHANGED <<open, tio, newtio, asked, pc, port>>
      BY <1>7 DEF Arrive, SigHandler, vars, settings
    <2>2. QED
      BY <2>1 DEF RateKept, Setting
  <1>8. QED
    BY <1>1, <1>2, <1>3, <1>4, <1>5, <1>6, <1>7 DEF Next

(* A program that asks for one rate, eight bits wide, has its open ports   *)
(* at that rate, however often they are closed and opened: what is never   *)
(* cleared from the static newtio (gftiolin.c:769) is the same rate.       *)
THEOREM OneRateAsAsked == ASSUME OneRate PROVE Spec => []RateAsAsked
  <1>1. Init => RateKept
    BY DEF Init, RateKept
  <1>2. LinuxInv /\ RateKept /\ [Next]_vars => RateKept'
    BY RateKeptStep
  <1>3. RateKept => RateAsAsked
    BY DEF RateKept, RateAsAsked, Setting
  <1>4. QED
    BY <1>1, <1>2, <1>3, LinuxInvariant, PTL DEF Spec
=============================================================================
