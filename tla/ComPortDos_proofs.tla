-------------------------- MODULE ComPortDos_proofs --------------------------
(***************************************************************************)
(* Proofs about the DOS serial library, for every set of ports, ring size  *)
(* and set of characters.                                                  *)
(***************************************************************************)
EXTENDS ComPortDos, SequenceTheorems, TLAPS

LEMMA SlotMoves == ASSUME NEW i \in Slot PROVE NextSlot(i) \in Slot
    BY ComAssumption DEF Slot, NextSlot

THEOREM ComTypeCorrect == Spec => []ComTypeOK
<1> USE ComAssumption DEF ComTypeOK
<1>1. Init => ComTypeOK
    BY DEF Init, Slot, Irqs
<1>2. ComTypeOK /\ [Next]_vars => ComTypeOK'
    <2> SUFFICES ASSUME ComTypeOK, [Next]_vars PROVE ComTypeOK'
        OBVIOUS
    <2>1. CASE \E p \in Ports : Interrupt(p)
        <3>1. PICK p \in Ports : Interrupt(p)
            BY <2>1
        <3>2. head' \in [Ports -> Slot] /\ triggered' \in [Ports -> 0..1]
            BY <3>1, SlotMoves DEF Interrupt
        <3>3. PICK b \in Bytes : cell' = [cell EXCEPT ![p][head'[p]] = b]
            BY <3>1 DEF Interrupt
        <3>4. holdvector' \in [1..4 -> Ports \cup {Original, Null, Wild}]
            BY <3>1 DEF Interrupt, StoredBehind
        <3>5. cell' \in [Ports -> [Slot -> Bytes]]
            BY <3>2, <3>3
        <3> QED BY <3>1, <3>2, <3>4, <3>5 DEF Interrupt, programVars
    <2>2. CASE \E p \in Ports : ReadCom(p) \/ CloseCom(p) \/ OpenCom(p)
        BY <2>2 DEF ReadCom, CloseCom, OpenCom, ringVars, portVars
    <2>3. CASE MoveTail \/ TakeChar
        <3>1. tail' \in [Ports -> Slot]
            BY <2>3, SlotMoves DEF MoveTail, TakeChar
        <3>2. readchar' \in [Ports -> Bytes]
            BY <2>3 DEF MoveTail, TakeChar
        <3> QED BY <2>3, <3>1, <3>2 DEF MoveTail, TakeChar, Goto, portVars
    <2>4. CASE TestEmpty \/ ResetTriggered
        <3>1. pc' \in {"reset", "idle"} /\ UNCHANGED <<port, after, left, cut>>
            BY <2>4 DEF TestEmpty, ResetTriggered, Goto
        <3>2. /\ triggered' \in [Ports -> 0..1]
              /\ UNCHANGED <<head, tail, cell, readchar, portVars>>
            BY <2>4 DEF TestEmpty, ResetTriggered, ringVars
        <3> QED BY <3>1, <3>2 DEF portVars
    <2>5. CASE ResetHead \/ ResetTail
        <3>1. 0 \in Slot
            BY DEF Slot
        <3>2. pc' \in {"tail", "flag"} /\ UNCHANGED <<port, after, left, cut>>
            BY <2>5 DEF ResetHead, ResetTail, Goto
        <3>3. /\ head' \in [Ports -> Slot] /\ tail' \in [Ports -> Slot]
              /\ UNCHANGED <<cell, triggered, readchar, portVars>>
            BY <2>5, <3>1 DEF ResetHead, ResetTail
        <3> QED BY <3>2, <3>3 DEF portVars
    <2>6. CASE ResetFlags
        BY <2>6 DEF ResetFlags, Goto
    <2>7. CASE Mask
        BY <2>7 DEF Mask, Goto, ringVars
    <2>8. CASE Restore
        <3>1. vector' \in [Irqs -> Ports \cup {Original, Null, Wild}]
            <4>1. holdvector[Restored(port)] \in Ports \cup {Original, Null, Wild}
                BY DEF Restored
            <4> QED BY <2>8, <4>1 DEF Restore
        <3>2. pc' = after /\ UNCHANGED <<port, after, left, cut>>
            BY <2>8 DEF Restore, Goto
        <3>3. UNCHANGED <<ringVars, open, intson, holdvector, guarded>>
            BY <2>8 DEF Restore
        <3> QED BY <3>1, <3>2, <3>3 DEF ringVars
    <2>9. CASE Hook
        <3>1. holdvector' \in [1..4 -> Ports \cup {Original, Null, Wild}]
            BY <2>9 DEF Hook, Irq, Irqs
        <3>2. vector' \in [Irqs -> Ports \cup {Original, Null, Wild}]
            BY <2>9 DEF Hook
        <3>3. cell' \in [Ports -> [Slot -> Bytes]]
            <4>1. CASE UNCHANGED cell
                BY <4>1
            <4>2. CASE cell' # cell
                <5>1. PICK b \in Bytes :
                          port - 1 \in Ports /\ cell' = [cell EXCEPT ![port - 1][BUFFSIZE] = b]
                    BY <2>9, <4>2 DEF Hook, SavedBehind
                <5> QED BY <5>1
            <4> QED BY <4>1, <4>2
        <3>4. pc' = "idle" /\ UNCHANGED <<port, after, left, cut>>
            BY <2>9 DEF Hook, Goto
        <3>5. /\ UNCHANGED <<head, tail, triggered, readchar>> /\ guarded' = 1
              /\ open' = open \cup {port} /\ intson' = intson \cup {port}
            BY <2>9 DEF Hook
        <3> QED BY <3>1, <3>2, <3>3, <3>4, <3>5
    <2>10. CASE Exit \/ Break \/ CloseNext \/ End
        BY <2>10 DEF Exit, Break, Ends, CloseNext, End, Goto, ringVars, portVars
    <2>11. CASE UNCHANGED vars
        BY <2>11 DEF vars, ringVars, portVars, programVars
    <2> QED BY <2>1, <2>2, <2>3, <2>4, <2>5, <2>6, <2>7, <2>8, <2>9, <2>10, <2>11 DEF Next
<1> QED BY <1>1, <1>2, PTL DEF Spec

-----------------------------------------------------------------------------
(* The two ports of a line. *)
LEMMA Lines ==
    ASSUME NEW p \in 1..4, NEW q \in 1..4
    PROVE  /\ Partner(p) \in 1..4 /\ Partner(Partner(p)) = p
           /\ Irq(p) \in Irqs /\ Irq(Partner(p)) = Irq(p)
           /\ Irq(p) = Irq(q) => q = p \/ q = Partner(p)
           /\ Restored(p) \in 1..2 /\ Irq(Restored(p)) = Irq(p)
    BY DEF Partner, Irq, Irqs, Restored

Closing == pc \in {"head", "tail", "flag", "unhook", "restore"}
Reading == pc \in {"take", "load", "test", "reset"}

(* The ports whose handler is installed: the open ones, the one that a     *)
(* close has marked closed and not yet unhooked, and those that a          *)
(* ctrl-break found so.                                                    *)
Unhooking == IF pc \in {"unhook", "restore"} THEN {port} ELSE {}
Hooked    == open \cup cut \cup Unhooking

(* One hooked port per line, and the vectors name the hooked ports; the    *)
(* saved ones never name a handler.                                        *)
HooksFit ==
    /\ intson \subseteq Hooked
    /\ \A p \in Hooked : Partner(p) \notin Hooked /\ vector[Irq(p)] = p
    /\ \A irq \in Irqs : vector[irq] \in Ports =>
           vector[irq] \in Hooked /\ Irq(vector[irq]) = irq
    /\ \A p \in 1..4 : holdvector[p] \notin Ports

(* Where a call stands: what it knows of its port, and where it goes.  A   *)
(* call that opens a port found its partner closed.                        *)
CallsFit ==
    /\ open \cap cut = {}
    /\ pc \in {"unhook", "restore"} => port \notin open \cup cut
    /\ pc = "restore" => port \notin intson
    /\ cut # {} => after = "exit"
    /\ pc = "idle" \/ Reading => after # "exit"
    /\ Reading => port \in open
    /\ pc = "hook" => after = "hook" /\ port \notin open
    /\ Closing \/ pc = "hook" => (after = "hook" => Partner(port) \notin open)
    /\ pc \in {"exit", "done"} => after = "exit"

(* Once the program is ending, the ports still open are yet to be closed. *)
ExitCloses ==
    /\ guarded = 0 => open = {}
    /\ pc = "exit" => open \subseteq left
    /\ Closing /\ after = "exit" => open \subseteq left \cup {port}
    /\ pc = "done" => open = {}

HookInv == ComTypeOK /\ HooksFit /\ CallsFit /\ ExitCloses

LEMMA HookInitInv == Init => HookInv
<1> SUFFICES ASSUME Init PROVE HookInv
    OBVIOUS
<1>1. ComTypeOK
    BY ComAssumption DEF Init, ComTypeOK, Slot, Irqs
<1>2. Original \notin Ports /\ Null \notin Ports
    BY ComAssumption DEF Original, Null
<1> QED BY <1>1, <1>2 DEF Init, HookInv, HooksFit, CallsFit, ExitCloses, Hooked, Unhooking,
               Closing, Reading, Irqs

(* What the steps that leave the ports and their hooks alone keep. *)
LEMMA HooksAlone ==
    ASSUME HooksFit, UNCHANGED <<intson, vector, holdvector>>, Hooked' = Hooked
    PROVE  HooksFit'
    BY DEF HooksFit

LEMMA HookInvStep == HookInv /\ ComTypeOK' /\ [Next]_vars => HookInv'
<1> SUFFICES ASSUME HookInv, ComTypeOK', [Next]_vars PROVE HookInv'
    OBVIOUS
<1>0. ComTypeOK /\ HooksFit /\ CallsFit /\ ExitCloses
    BY DEF HookInv
<1>a. /\ Ports \subseteq 1..4 /\ open \subseteq Ports /\ intson \subseteq Ports
      /\ cut \subseteq Ports /\ port \in Ports /\ port \in 1..4
      /\ Hooked \subseteq Ports
      /\ Original \notin Ports /\ Null \notin Ports /\ Wild \notin Ports
      /\ after \in {"idle", "hook", "exit"}
      /\ vector \in [Irqs -> Ports \cup {Original, Null, Wild}]
      /\ holdvector \in [1..4 -> Ports \cup {Original, Null, Wild}]
    BY <1>0, ComAssumption DEF ComTypeOK, Original, Null, Wild, Hooked, Unhooking
<1>1. ASSUME NEW p \in Ports, Interrupt(p) PROVE HookInv'
    <2>1. UNCHANGED <<open, intson, vector, guarded, programVars>>
        BY <1>1 DEF Interrupt
    <2>2. \A q \in 1..4 : holdvector'[q] \notin Ports
        <3>1. holdvector' = holdvector \/ holdvector' = [holdvector EXCEPT ![p + 1] = Wild]
            BY <1>1 DEF Interrupt, StoredBehind
        <3> QED BY <1>0, <1>a, <3>1 DEF HooksFit
    <2>3. HooksFit'
        BY <1>0, <2>1, <2>2 DEF HooksFit, Hooked, Unhooking, programVars
    <2>4. CallsFit' /\ ExitCloses'
        BY <1>0, <2>1 DEF CallsFit, ExitCloses, Closing, Reading, programVars
    <2> QED BY <2>3, <2>4 DEF HookInv
<1>2. ASSUME NEW p \in Ports, ReadCom(p) \/ CloseCom(p) \/ OpenCom(p) PROVE HookInv'
    <2>1. /\ UNCHANGED <<open, intson, vector, holdvector, guarded, cut>> /\ pc = "idle"
          /\ pc' \in {"take", "test", "head"} /\ port' = p
          /\ pc' = "head" => after' # "exit"
          /\ pc' # "head" => p \in open /\ after' = after
        BY <1>2 DEF ReadCom, CloseCom, OpenCom, portVars
    <2>2. pc' = "head" /\ after' = "hook" => Partner(p) \notin open
        BY <1>2 DEF ReadCom, CloseCom, OpenCom
    <2>3. HooksFit'
        BY <1>0, <2>1, HooksAlone DEF Hooked, Unhooking
    <2>4. CallsFit' /\ ExitCloses'
        BY <1>0, <2>1, <2>2 DEF CallsFit, ExitCloses, Closing, Reading
    <2> QED BY <2>3, <2>4 DEF HookInv
<1>3. CASE MoveTail \/ TakeChar \/ TestEmpty \/ ResetTriggered
    <2>1. /\ UNCHANGED <<open, intson, vector, holdvector, guarded, port, after, left, cut>>
          /\ pc \in {"take", "load", "test", "reset"}
          /\ pc' \in {"load", "test", "reset", "idle"}
        BY <1>3 DEF MoveTail, TakeChar, TestEmpty, ResetTriggered, Goto, portVars
    <2>2. HooksFit'
        BY <1>0, <2>1, HooksAlone DEF Hooked, Unhooking
    <2>3. CallsFit' /\ ExitCloses'
        BY <1>0, <2>1 DEF CallsFit, ExitCloses, Closing, Reading
    <2> QED BY <2>2, <2>3 DEF HookInv
<1>4. CASE ResetHead \/ ResetTail
    <2>1. /\ UNCHANGED <<open, intson, vector, holdvector, guarded, port, after, left, cut>>
          /\ pc \in {"head", "tail"} /\ pc' \in {"tail", "flag"}
        BY <1>4 DEF ResetHead, ResetTail, Goto, portVars
    <2>2. HooksFit'
        BY <1>0, <2>1, HooksAlone DEF Hooked, Unhooking
    <2>3. CallsFit' /\ ExitCloses'
        BY <1>0, <2>1 DEF CallsFit, ExitCloses, Closing, Reading
    <2> QED BY <2>2, <2>3 DEF HookInv
<1>5. CASE ResetFlags
    <2>1. /\ pc = "flag" /\ open' = open \ {port}
          /\ pc' = IF port \in open THEN "unhook" ELSE after
          /\ UNCHANGED <<intson, vector, holdvector, guarded, port, after, left, cut>>
        BY <1>5 DEF ResetFlags, Goto
    <2>2. Hooked' = Hooked
        BY <1>a, <2>1 DEF Hooked, Unhooking
    <2>3. HooksFit'
        BY <1>0, <2>1, <2>2, HooksAlone
    <2>4. CallsFit'
        BY <1>0, <1>a, <2>1 DEF CallsFit, Closing, Reading
    <2>5. ExitCloses'
        BY <1>0, <1>a, <2>1 DEF ExitCloses, Closing
    <2> QED BY <2>3, <2>4, <2>5 DEF HookInv
<1>6. CASE Mask
    <2>1. /\ pc = "unhook" /\ intson' = intson \ {port} /\ pc' = "restore"
          /\ UNCHANGED <<open, vector, holdvector, guarded, port, after, left, cut>>
        BY <1>6 DEF Mask, Goto
    <2>2. HooksFit'
        BY <1>0, <2>1 DEF HooksFit, Hooked, Unhooking
    <2>3. CallsFit' /\ ExitCloses'
        BY <1>0, <2>1 DEF CallsFit, ExitCloses, Closing, Reading
    <2> QED BY <2>2, <2>3 DEF HookInv
<1>7. CASE Restore
    <2>1. /\ pc = "restore" /\ pc' = after
          /\ vector' = [vector EXCEPT ![Irq(port)] = holdvector[Restored(port)]]
          /\ UNCHANGED <<open, intson, holdvector, guarded, port, after, left, cut>>
        BY <1>7 DEF Restore, Goto
    <2>2. holdvector[Restored(port)] \notin Ports
        BY <1>0, <1>a, Lines DEF HooksFit
    <2>3. Hooked' = Hooked \ {port} /\ port \in Hooked
        BY <1>0, <1>a, <2>1 DEF Hooked, Unhooking, CallsFit
    <2>4. \A p \in Hooked' : Irq(p) # Irq(port) /\ Irq(p) \in Irqs
        BY <1>0, <1>a, <2>3, Lines DEF HooksFit
    <2>5. ASSUME NEW irq \in Irqs, vector'[irq] \in Ports
          PROVE  vector'[irq] \in Hooked' /\ Irq(vector'[irq]) = irq
        <3>1. irq # Irq(port) /\ vector'[irq] = vector[irq]
            BY <1>a, <2>1, <2>2, <2>5, Lines
        <3> QED BY <1>0, <2>3, <2>5, <3>1 DEF HooksFit
    <2>6. intson' \subseteq Hooked'
        <3>1. port \notin intson
            BY <1>0, <2>1 DEF CallsFit
        <3> QED BY <1>0, <2>1, <2>3, <3>1 DEF HooksFit
    <2>7. HooksFit'
        BY <1>0, <1>a, <2>1, <2>3, <2>4, <2>5, <2>6 DEF HooksFit
    <2>8. CallsFit' /\ ExitCloses'
        BY <1>0, <1>a, <2>1 DEF CallsFit, ExitCloses, Closing, Reading
    <2> QED BY <2>7, <2>8 DEF HookInv
<1>8. CASE Hook
    <2>1. /\ pc = "hook" /\ pc' = "idle" /\ guarded' = 1
          /\ open' = open \cup {port} /\ intson' = intson \cup {port}
          /\ vector' = [vector EXCEPT ![Irq(port)] = port]
          /\ holdvector' = [holdvector EXCEPT ![port] = vector[Irq(port)]]
          /\ UNCHANGED <<port, after, left, cut>>
        BY <1>8 DEF Hook, Goto
    <2>2. /\ cut = {} /\ after = "hook" /\ port \notin open /\ Partner(port) \notin open
          /\ Hooked = open /\ Hooked' = open \cup {port}
        BY <1>0, <2>1 DEF CallsFit, Hooked, Unhooking
    <2>3. \A p \in open : Irq(p) # Irq(port) /\ Irq(p) \in Irqs /\ Partner(p) # port
        BY <1>a, <2>2, Lines
    <2>4. vector[Irq(port)] \notin Ports
        <3>1. vector[Irq(port)] \in Ports =>
                 vector[Irq(port)] \in open /\ Irq(vector[Irq(port)]) = Irq(port)
            BY <1>0, <1>a, <2>2, Lines DEF HooksFit
        <3> QED BY <2>3, <3>1
    <2>5. ASSUME NEW p \in Hooked' PROVE Partner(p) \notin Hooked' /\ vector'[Irq(p)] = p
        <3>1. CASE p = port
            BY <1>a, <2>1, <2>2, <3>1, Lines DEF Partner
        <3>2. CASE p \in open
            BY <1>0, <2>1, <2>2, <2>3, <3>2 DEF HooksFit
        <3> QED BY <2>2, <2>5, <3>1, <3>2
    <2>6. ASSUME NEW irq \in Irqs, vector'[irq] \in Ports
          PROVE  vector'[irq] \in Hooked' /\ Irq(vector'[irq]) = irq
        <3>1. CASE irq = Irq(port)
            BY <1>a, <2>1, <2>2, <3>1
        <3>2. CASE irq # Irq(port)
            BY <1>0, <1>a, <2>1, <2>2, <2>6, <3>2 DEF HooksFit
        <3> QED BY <3>1, <3>2
    <2>7. intson' \subseteq Hooked' /\ \A p \in 1..4 : holdvector'[p] \notin Ports
        BY <1>0, <1>a, <2>1, <2>2, <2>4 DEF HooksFit
    <2>8. HooksFit'
        BY <2>5, <2>6, <2>7 DEF HooksFit
    <2>9. CallsFit' /\ ExitCloses'
        BY <1>0, <2>1, <2>2 DEF CallsFit, ExitCloses, Closing, Reading
    <2> QED BY <2>8, <2>9 DEF HookInv
<1>9. CASE Exit \/ Break
    <2>1. /\ pc' = "exit" /\ after' = "exit" /\ left' = IF guarded = 1 THEN Ports ELSE {}
          /\ UNCHANGED <<open, intson, vector, holdvector, guarded, port>>
        BY <1>9 DEF Exit, Break, Ends, portVars
    <2>2. cut' = cut \cup Unhooking
        BY <1>9 DEF Exit, Break, Unhooking
    <2>3. HooksFit'
        BY <1>0, <2>1, <2>2, HooksAlone DEF Hooked, Unhooking
    <2>4. CallsFit'
        BY <1>0, <2>1, <2>2 DEF CallsFit, Closing, Reading, Unhooking
    <2>5. ExitCloses'
        BY <1>0, <1>a, <2>1 DEF ExitCloses, Closing, ComTypeOK
    <2> QED BY <2>3, <2>4, <2>5 DEF HookInv
<1>10. CASE CloseNext \/ End
    <2>1. /\ UNCHANGED <<open, intson, vector, holdvector, guarded, cut, after>>
          /\ pc = "exit" /\ pc' \in {"head", "done"}
        BY <1>10 DEF CloseNext, End, Goto, portVars
    <2>2. HooksFit'
        BY <1>0, <2>1, HooksAlone DEF Hooked, Unhooking
    <2>3. CallsFit'
        BY <1>0, <2>1 DEF CallsFit, Closing, Reading
    <2>4. ExitCloses'
        BY <1>0, <1>a, <1>10, <2>1 DEF CloseNext, End, Goto, ExitCloses, Closing
    <2> QED BY <2>2, <2>3, <2>4 DEF HookInv
<1>11. CASE UNCHANGED vars
    BY <1>0, <1>11 DEF vars, portVars, programVars, HookInv, HooksFit, CallsFit, ExitCloses,
       Hooked, Unhooking, Closing, Reading
<1> QED BY <1>1, <1>2, <1>3, <1>4, <1>5, <1>6, <1>7, <1>8, <1>9, <1>10, <1>11 DEF Next

THEOREM HookInvariant == Spec => []HookInv
    BY HookInitInv, HookInvStep, ComTypeCorrect, PTL DEF Spec

(* Two ports of one interrupt line are never open together. *)
THEOREM PortsExclusive == Spec => []OnePortPerIrq
<1>1. HookInv => OnePortPerIrq
    BY DEF HookInv, HooksFit, Hooked, OnePortPerIrq
<1> QED BY <1>1, HookInvariant, PTL

(* Whenever a port can interrupt, its own handler serves it. *)
THEOREM OwnHandler == Spec => []HandlerInPlace
<1>1. HookInv => HandlerInPlace
    BY DEF HookInv, HooksFit, HandlerInPlace
<1> QED BY <1>1, HookInvariant, PTL

(* However it used its ports, and at whatever step of a call it was        *)
(* broken, a program that has ended has a handler installed only for a     *)
(* port that the break found half closed.                                  *)
THEOREM CleanExit == Spec => []HandlerLeftOnlyByBreak
<1>1. HookInv => HandlerLeftOnlyByBreak
    BY DEF HookInv, HandlerLeftOnlyByBreak, HooksFit, ExitCloses, Hooked, Unhooking
<1> QED BY <1>1, HookInvariant, PTL

-----------------------------------------------------------------------------
(* A program that uses only ports 1 and 2 puts back what it saved. *)
SavedOriginal ==
    /\ \A irq \in Irqs : vector[irq] \in Ports \cup {Original}
    /\ \A p \in Hooked : holdvector[p] = Original

(* The byte behind a ring belongs to no saved vector that is put back. *)
NoneBehind == Ports \subseteq {1, 2} /\ (SPARE \/ 1 \notin Ports \/ 2 \notin Ports)

LEMMA SavedOriginalStep ==
    ASSUME NoneBehind, HookInv, SavedOriginal, [Next]_vars
    PROVE  SavedOriginal'
<1>0. ComTypeOK /\ HooksFit /\ CallsFit
    BY DEF HookInv
<1>1. /\ port \in Ports /\ port \in 1..4 /\ port \in {1, 2}
      /\ Restored(port) = port /\ Irq(port) \in Irqs
      /\ Hooked \subseteq Ports /\ Ports \subseteq 1..4
      /\ vector \in [Irqs -> Ports \cup {Original, Null, Wild}]
      /\ holdvector \in [1..4 -> Ports \cup {Original, Null, Wild}]
    BY <1>0, ComAssumption, Lines DEF ComTypeOK, Restored, NoneBehind, Hooked, Unhooking
<1>2. CASE Restore
    <2>1. /\ pc = "restore" /\ pc' = after /\ UNCHANGED <<holdvector, open, cut, port>>
          /\ vector' = [vector EXCEPT ![Irq(port)] = holdvector[port]]
        BY <1>1, <1>2 DEF Restore, Goto
    <2>2. Hooked' \subseteq Hooked /\ port \in Hooked
        BY <2>1 DEF Hooked, Unhooking
    <2>3. holdvector[port] = Original
        BY <2>2 DEF SavedOriginal
    <2> QED BY <1>1, <2>1, <2>2, <2>3 DEF SavedOriginal
<1>3. CASE Hook
    <2>1. /\ pc = "hook" /\ pc' = "idle" /\ open' = open \cup {port} /\ cut' = cut
          /\ vector' = [vector EXCEPT ![Irq(port)] = port]
          /\ holdvector' = [holdvector EXCEPT ![port] = vector[Irq(port)]]
        BY <1>3 DEF Hook, Goto
    <2>2. Hooked = open /\ Hooked' = open \cup {port} /\ port \notin open /\ Partner(port) \notin open
        BY <1>0, <2>1 DEF CallsFit, Hooked, Unhooking
    <2>3. vector[Irq(port)] \notin Ports
        <3>1. vector[Irq(port)] \in Ports =>
                 vector[Irq(port)] \in open /\ Irq(vector[Irq(port)]) = Irq(port)
            BY <1>0, <1>1, <2>2 DEF HooksFit
        <3> QED BY <1>1, <2>2, <3>1, Lines
    <2>4. vector[Irq(port)] = Original
        BY <1>1, <2>3 DEF SavedOriginal
    <2> QED BY <1>1, <2>1, <2>2, <2>4 DEF SavedOriginal
<1>4. ASSUME NEW p \in Ports, Interrupt(p) PROVE SavedOriginal'
    <2>1. UNCHANGED <<open, vector, cut, pc, port>> /\ StoredBehind(p) /\ head'[p] = NextSlot(head[p])
        BY <1>0, <1>4 DEF Interrupt, programVars, ComTypeOK
    <2>2. \A q \in Ports : holdvector'[q] = holdvector[q]
        BY <1>1, <2>1 DEF StoredBehind, NoneBehind
    <2> QED BY <1>1, <2>1, <2>2 DEF SavedOriginal, Hooked, Unhooking
<1>5. ASSUME UNCHANGED <<vector, holdvector>>, Hooked' \subseteq Hooked PROVE SavedOriginal'
    BY <1>5 DEF SavedOriginal
<1>6. CASE \E p \in Ports : ReadCom(p) \/ CloseCom(p) \/ OpenCom(p)
    BY <1>5, <1>6 DEF ReadCom, CloseCom, OpenCom, portVars, Hooked, Unhooking
<1>7. CASE MoveTail \/ TakeChar \/ TestEmpty \/ ResetTriggered \/ ResetHead \/ ResetTail
    BY <1>5, <1>7 DEF MoveTail, TakeChar, TestEmpty, ResetTriggered, ResetHead, ResetTail, Goto,
       portVars, Hooked, Unhooking
<1>8. CASE ResetFlags \/ Mask
    BY <1>0, <1>1, <1>5, <1>8 DEF ResetFlags, Mask, Goto, Hooked, Unhooking, ComTypeOK
<1>9. CASE Exit \/ Break \/ CloseNext \/ End \/ UNCHANGED vars
    BY <1>5, <1>9 DEF Exit, Break, Ends, CloseNext, End, Goto, vars, portVars, programVars,
       Hooked, Unhooking
<1> QED BY <1>2, <1>3, <1>4, <1>6, <1>7, <1>8, <1>9 DEF Next

(* A program that uses port 1 or port 2, or both where no character can be *)
(* stored in a saved vector, leaves the vectors it found when both are     *)
(* closed.                                                                 *)
THEOREM TwoPortsRestored ==
    ASSUME NoneBehind PROVE Spec => []VectorsRestored
<1>1. Init => SavedOriginal
    BY DEF Init, SavedOriginal, Hooked, Unhooking
<1>2. HookInv /\ SavedOriginal /\ [Next]_vars => SavedOriginal'
    BY SavedOriginalStep
<1>3. HookInv /\ SavedOriginal => VectorsRestored
    BY DEF HookInv, SavedOriginal, VectorsRestored, HooksFit, CallsFit, Hooked, Unhooking
<1> QED BY <1>1, <1>2, <1>3, HookInvariant, PTL DEF Spec

-----------------------------------------------------------------------------
(* The ring of a port as a queue: what a ring, a head and a tail hold, and *)
(* what a character that comes in or is taken does to it.                  *)
LEMMA RingFacts ==
    ASSUME NEW ring \in [Slot -> Bytes], NEW h \in Slot, NEW t \in Slot
    PROVE  /\ Held(h, t) \in 0..BUFFSIZE
           /\ Contents(ring, h, t) \in Seq(Bytes)
           /\ Len(Contents(ring, h, t)) = Held(h, t)
           /\ \A i \in 1..Held(h, t) : /\ SlotOf(t, i) \in Slot
                                       /\ Contents(ring, h, t)[i] = ring[SlotOf(t, i)]
<1>1. Held(h, t) \in 0..BUFFSIZE
    BY ComAssumption DEF Held, Slot
<1>2. \A i \in 1..Held(h, t) : SlotOf(t, i) \in Slot
    BY ComAssumption DEF Held, SlotOf, Slot
<1>3. \A i \in 1..Held(h, t) : ring[SlotOf(t, i)] \in Bytes
    BY <1>2
<1>4. Contents(ring, h, t) \in Seq(Bytes) /\ Len(Contents(ring, h, t)) = Held(h, t)
    BY <1>1, <1>3 DEF Contents
<1> QED BY <1>1, <1>2, <1>4 DEF Contents

LEMMA StoreAppends ==
    ASSUME NEW ring \in [Slot -> Bytes], NEW h \in Slot, NEW t \in Slot, NEW b \in Bytes,
           NextSlot(h) # t
    PROVE  /\ Len(Contents(ring, h, t)) < BUFFSIZE
           /\ Contents([ring EXCEPT ![NextSlot(h)] = b], NextSlot(h), t)
                = Append(Contents(ring, h, t), b)
<1> DEFINE g == NextSlot(h)
           stored == [ring EXCEPT ![g] = b]
           q == Contents(ring, h, t)
           r == Contents(stored, g, t)
           n == Held(h, t)
<1>1. g \in Slot /\ stored \in [Slot -> Bytes]
    BY SlotMoves
<1>2. /\ n < BUFFSIZE /\ Held(g, t) = n + 1 /\ SlotOf(t, n + 1) = g
      /\ \A i \in 1..n : SlotOf(t, i) # g
    BY ComAssumption DEF Held, SlotOf, NextSlot, Slot
<1>3. n \in Nat /\ q \in Seq(Bytes) /\ Len(q) = n
      /\ \A i \in 1..n : SlotOf(t, i) \in Slot /\ q[i] = ring[SlotOf(t, i)]
    BY RingFacts
<1>4. r \in Seq(Bytes) /\ Len(r) = n + 1 /\ \A i \in 1..n + 1 : r[i] = stored[SlotOf(t, i)]
    <2> HIDE DEF stored, n, g
    <2>1. /\ r \in Seq(Bytes) /\ Len(r) = Held(g, t)
          /\ \A i \in 1..Held(g, t) : r[i] = stored[SlotOf(t, i)]
        BY <1>1, RingFacts
    <2> QED BY <1>2, <2>1
<1>5. stored[g] = b /\ \A i \in Slot : i # g => stored[i] = ring[i]
    BY <1>1
<1> HIDE DEF g, stored, q, r, n
<1>6. \A i \in 1..n : r[i] = q[i]
    BY <1>2, <1>3, <1>4, <1>5
<1>7. r[n + 1] = b
    BY <1>2, <1>3, <1>4, <1>5
<1>8. /\ Append(q, b) \in Seq(Bytes) /\ Len(Append(q, b)) = n + 1
      /\ \A i \in 1..n : Append(q, b)[i] = q[i]
      /\ Append(q, b)[n + 1] = b
    BY <1>3, AppendProperties
<1>9. \A i \in 1..Len(r) : r[i] = Append(q, b)[i]
    BY <1>3, <1>4, <1>6, <1>7, <1>8
<1>10. r = Append(q, b)
    BY <1>4, <1>8, <1>9, SeqEqual
<1> QED BY <1>2, <1>3, <1>10 DEF q, r, stored, g

LEMMA TakeRemoves ==
    ASSUME NEW ring \in [Slot -> Bytes], NEW h \in Slot, NEW t \in Slot, h # t
    PROVE  /\ Contents(ring, h, t) # <<>>
           /\ Head(Contents(ring, h, t)) = ring[NextSlot(t)]
           /\ Contents(ring, h, NextSlot(t)) = Tail(Contents(ring, h, t))
<1> DEFINE u == NextSlot(t)
           q == Contents(ring, h, t)
           r == Contents(ring, h, u)
           n == Held(h, t)
<1>1. u \in Slot
    BY SlotMoves
<1>2. /\ n >= 1 /\ Held(h, u) = n - 1 /\ SlotOf(t, 1) = u
      /\ \A i \in 1..n - 1 : SlotOf(u, i) = SlotOf(t, i + 1)
    BY ComAssumption DEF Held, SlotOf, NextSlot, Slot
<1>3. n \in Nat /\ q \in Seq(Bytes) /\ Len(q) = n /\ \A i \in 1..n : q[i] = ring[SlotOf(t, i)]
    BY RingFacts
<1>4. r \in Seq(Bytes) /\ Len(r) = n - 1 /\ \A i \in 1..n - 1 : r[i] = ring[SlotOf(u, i)]
    <2> HIDE DEF n, u
    <2>1. /\ r \in Seq(Bytes) /\ Len(r) = Held(h, u)
          /\ \A i \in 1..Held(h, u) : r[i] = ring[SlotOf(u, i)]
        BY <1>1, RingFacts
    <2> QED BY <1>2, <2>1
<1> HIDE DEF u, q, r, n
<1>5. q # <<>> /\ Head(q) = ring[u]
    BY <1>2, <1>3
<1>6. Tail(q) \in Seq(Bytes) /\ Len(Tail(q)) = n - 1 /\ \A i \in 1..n - 1 : Tail(q)[i] = q[i + 1]
    BY <1>3, <1>5, HeadTailProperties
<1>7. \A i \in 1..Len(r) : r[i] = Tail(q)[i]
    <2> TAKE i \in 1..Len(r)
    <2>1. i \in 1..n - 1 /\ i + 1 \in 1..n
        BY <1>3, <1>4
    <2> QED BY <1>2, <1>3, <1>4, <1>6, <2>1
<1>8. r = Tail(q)
    BY <1>4, <1>6, <1>7, SeqEqual
<1> QED BY <1>5, <1>8 DEF q, r, u

LEMMA NoneHeld == ASSUME NEW ring, NEW t \in Slot PROVE Contents(ring, t, t) = <<>>
    BY ComAssumption DEF Contents, Held, Slot

(* A character too many: the indexes meet.                                 *)
LEMMA StoreMeets ==
    ASSUME NEW ring \in [Slot -> Bytes], NEW h \in Slot, NEW t \in Slot, NextSlot(h) = t
    PROVE  Len(Contents(ring, h, t)) = BUFFSIZE
<1>1. Held(h, t) = BUFFSIZE
    BY ComAssumption DEF Held, NextSlot, Slot
<1> QED BY <1>1, RingFacts

(* The queue of a port that is being read: the character in slot t comes   *)
(* before those that the ring holds.                                       *)
Behind(ring, h, t) == <<ring[t]>> \o Contents(ring, h, t)

LEMMA BehindTail ==
    ASSUME NEW ring \in [Slot -> Bytes], NEW h \in Slot, NEW t \in Slot
    PROVE  /\ Behind(ring, h, t) \in Seq(Bytes) /\ Behind(ring, h, t) # <<>>
           /\ Head(Behind(ring, h, t)) = ring[t]
           /\ Tail(Behind(ring, h, t)) = Contents(ring, h, t)
           /\ h # t => Behind(ring, h, NextSlot(t)) = Contents(ring, h, t)
<1>1. Contents(ring, h, t) \in Seq(Bytes) /\ ring[t] \in Bytes
    BY RingFacts
<1>2. \A s \in Seq(Bytes), b \in Bytes :
          /\ <<b>> \o s \in Seq(Bytes) /\ <<b>> \o s # <<>>
          /\ Head(<<b>> \o s) = b /\ Tail(<<b>> \o s) = s
    <2> TAKE s \in Seq(Bytes), b \in Bytes
    <2> QED OBVIOUS
<1>3. ASSUME h # t PROVE Behind(ring, h, NextSlot(t)) = Contents(ring, h, t)
    <2> DEFINE q == Contents(ring, h, t)
    <2>1. q \in Seq(Bytes) /\ q # <<>> /\ Head(q) = ring[NextSlot(t)]
          /\ Contents(ring, h, NextSlot(t)) = Tail(q)
        BY <1>1, <1>3, TakeRemoves
    <2>2. <<Head(q)>> \o Tail(q) = q
        <3> HIDE DEF q
        <3>1. Head(q) \in Bytes /\ Tail(q) \in Seq(Bytes) /\ Len(Tail(q)) = Len(q) - 1
            BY <2>1, HeadTailProperties
        <3>2. /\ <<Head(q)>> \o Tail(q) \in Seq(Bytes)
              /\ Len(<<Head(q)>> \o Tail(q)) = Len(q)
              /\ \A i \in 1..Len(q) : (<<Head(q)>> \o Tail(q))[i] = q[i]
            BY <2>1, <3>1
        <3> QED BY <2>1, <3>2, SeqEqual
    <2> QED BY <2>1, <2>2 DEF Behind
<1> QED BY <1>1, <1>2, <1>3 DEF Behind

LEMMA StoreBehind ==
    ASSUME NEW ring \in [Slot -> Bytes], NEW h \in Slot, NEW t \in Slot, NEW b \in Bytes
    PROVE  /\ NextSlot(h) # t =>
                  /\ Len(Behind(ring, h, t)) < BUFFSIZE + 1
                  /\ Behind([ring EXCEPT ![NextSlot(h)] = b], NextSlot(h), t)
                        = Append(Behind(ring, h, t), b)
           /\ NextSlot(h) = t =>
                  /\ Len(Behind(ring, h, t)) >= BUFFSIZE
                  /\ Behind([ring EXCEPT ![NextSlot(h)] = b], NextSlot(h), t) = <<b>>
<1> DEFINE stored == [ring EXCEPT ![NextSlot(h)] = b]
           q == Contents(ring, h, t)
<1>1. q \in Seq(Bytes) /\ NextSlot(h) \in Slot /\ ring[t] \in Bytes /\ Len(q) \in Nat
    BY RingFacts, SlotMoves, LenProperties
<1>2. stored[NextSlot(h)] = b /\ \A i \in Slot : i # NextSlot(h) => stored[i] = ring[i]
    BY <1>1
<1>3. Len(Behind(ring, h, t)) = Len(q) + 1
    BY <1>1 DEF Behind
<1>4. ASSUME NextSlot(h) # t
      PROVE  Len(q) < BUFFSIZE /\ Behind(stored, NextSlot(h), t) = Append(Behind(ring, h, t), b)
    <2>1. Len(q) < BUFFSIZE /\ Contents(stored, NextSlot(h), t) = Append(q, b)
        BY <1>4, StoreAppends
    <2>2. stored[t] = ring[t]
        BY <1>2, <1>4
    <2>3. \A s \in Seq(Bytes), c \in Bytes : <<c>> \o Append(s, b) = Append(<<c>> \o s, b)
        <3> TAKE s \in Seq(Bytes), c \in Bytes
        <3>1. /\ <<c>> \o Append(s, b) \in Seq(Bytes) /\ Append(<<c>> \o s, b) \in Seq(Bytes)
              /\ Len(<<c>> \o Append(s, b)) = Len(s) + 2
              /\ Len(Append(<<c>> \o s, b)) = Len(s) + 2
            OBVIOUS
        <3>2. \A i \in 1..Len(s) + 2 : (<<c>> \o Append(s, b))[i] = Append(<<c>> \o s, b)[i]
            OBVIOUS
        <3> QED BY <3>1, <3>2, SeqEqual
    <2> HIDE DEF q, stored
    <2> QED BY <1>1, <2>1, <2>2, <2>3 DEF Behind, q
<1>5. ASSUME NextSlot(h) = t
      PROVE  Len(q) = BUFFSIZE /\ Behind(stored, NextSlot(h), t) = <<b>>
    <2>1. Len(q) = BUFFSIZE
        BY <1>5, StoreMeets
    <2>2. Contents(stored, NextSlot(h), t) = <<>> /\ stored[t] = b
        BY <1>2, <1>5, NoneHeld
    <2>3. <<b>> \o <<>> = <<b>>
        BY ConcatEmptySeq
    <2> HIDE DEF stored
    <2> QED BY <2>1, <2>2, <2>3 DEF Behind
<1>6. /\ NextSlot(h) # t => Len(Behind(ring, h, t)) < BUFFSIZE + 1
      /\ NextSlot(h) = t => Len(Behind(ring, h, t)) >= BUFFSIZE
    <2>1. Len(q) \in Nat /\ Len(Behind(ring, h, t)) = Len(q) + 1 /\ BUFFSIZE \in Nat
        BY <1>1, <1>3, ComAssumption
    <2>2. (NextSlot(h) # t => Len(q) < BUFFSIZE) /\ (NextSlot(h) = t => Len(q) = BUFFSIZE)
        BY <1>4, <1>5
    <2> HIDE DEF q
    <2> QED BY <2>1, <2>2
<1> QED BY <1>4, <1>5, <1>6

-----------------------------------------------------------------------------
(* read_com takes a character only when there is one; if the program keeps *)
(* up there still is when it does.                                         *)
TakesWaiting == pc = "take" /\ port \in KEPTUP => head[port] # tail[port]

LEMMA TakesWaitingStep ==
    ASSUME HookInv, TakesWaiting, [Next]_vars PROVE TakesWaiting'
<1>0. ComTypeOK /\ CallsFit
    BY DEF HookInv
<1>1. ASSUME NEW p \in Ports, Interrupt(p) PROVE TakesWaiting'
    <2>1. /\ UNCHANGED <<pc, port, tail>> /\ head' = [head EXCEPT ![p] = NextSlot(@)]
          /\ p \in KEPTUP \cap InUse => NextSlot(head[p]) # TailOf(p)
        BY <1>1 DEF Interrupt, programVars
    <2>2. pc = "take" => port \in InUse
        BY <1>0 DEF CallsFit, Reading, InUse
    <2> QED BY <1>0, <2>1, <2>2 DEF TakesWaiting, TailOf, ComTypeOK
<1>2. ASSUME NEW p \in Ports, ReadCom(p) PROVE TakesWaiting'
    BY <1>2 DEF ReadCom, TakesWaiting, ringVars
<1>3. ASSUME pc' # "take" PROVE TakesWaiting'
    BY <1>3 DEF TakesWaiting
<1>4. ASSUME UNCHANGED vars PROVE TakesWaiting'
    BY <1>4 DEF TakesWaiting, vars, ringVars, programVars
<1>5. ASSUME NEW p \in Ports, CloseCom(p) \/ OpenCom(p) PROVE pc' # "take"
    BY <1>5 DEF CloseCom, OpenCom
<1>6. ASSUME MoveTail \/ TakeChar \/ TestEmpty \/ ResetTriggered \/ ResetHead \/ ResetTail
      PROVE  pc' # "take"
    BY <1>6 DEF MoveTail, TakeChar, TestEmpty, ResetTriggered, ResetHead, ResetTail, Goto
<1>7. ASSUME ResetFlags \/ Mask \/ Restore \/ Hook \/ Exit \/ Break \/ CloseNext \/ End
      PROVE  pc' # "take"
    BY <1>0, <1>7 DEF ComTypeOK, ResetFlags, Mask, Restore, Hook, Exit, Break, Ends, CloseNext,
       End, Goto
<1> QED BY <1>1, <1>2, <1>3, <1>4, <1>5, <1>6, <1>7 DEF Next

(* Nothing that waits or was taken changes. *)
Same == /\ \A p \in Ports : Waiting(p)' = Waiting(p)
        /\ readchar' = readchar

Stutter == UNCHANGED <<[p \in Ports |-> Queue(p)], readchar, InUse>>

LEMMA StutterKeeps == Stutter => UNCHANGED Input!inputVars
    BY DEF Stutter, Input!inputVars

(* Until the program is ending. *)
LEMMA QueueWaits ==
    ASSUME after # "exit", after' # "exit"
    PROVE  \A p \in Ports : Queue(p) = Waiting(p) /\ Queue(p)' = Waiting(p)'
    BY DEF Queue

LEMMA SameStutters ==
    ASSUME Same, after # "exit", after' # "exit", InUse' = InUse PROVE Stutter
    BY QueueWaits DEF Same, Stutter

(* A step that leaves the rings alone, and does not go to or come from the *)
(* middle of a reset or of a read.                                         *)
LEMMA RingsAlone ==
    ASSUME UNCHANGED <<head, tail, cell, readchar>>,
           pc \notin {"tail", "take", "load"}, pc' \notin {"tail", "take", "load"}
    PROVE  Same
    BY DEF Same, Waiting, TailOf, Taking

(* A character that comes in is put after those that wait; a port that is  *)
(* read late may lose them all to it.                                      *)
LEMMA InterruptReceives ==
    ASSUME ComTypeOK, TakesWaiting, NEW p \in Ports, Interrupt(p), after # "exit"
    PROVE  Input!InputNext
<1>1. /\ UNCHANGED <<tail, readchar, pc, port>>
      /\ head' = [head EXCEPT ![p] = NextSlot(@)]
      /\ p \in KEPTUP \cap InUse => NextSlot(head[p]) # TailOf(p)
    BY DEF Interrupt, programVars
<1>a. InUse' = InUse /\ after' = after
    BY DEF Interrupt, programVars, InUse
<1>b. \A q \in Ports : Queue(q) = Waiting(q) /\ Queue(q)' = Waiting(q)'
    BY <1>a, QueueWaits
<1>2. PICK b \in Bytes : cell' = [cell EXCEPT ![p][head'[p]] = b]
    BY DEF Interrupt
<1>3. /\ head \in [Ports -> Slot] /\ cell \in [Ports -> [Slot -> Bytes]]
      /\ tail \in [Ports -> Slot] /\ port \in Ports
      /\ TailOf(p) \in Slot /\ \A q \in Ports : TailOf(q)' = TailOf(q)
      /\ BUFFSIZE \in Nat
    BY <1>1, ComAssumption DEF ComTypeOK, TailOf, Slot
<1>4. head'[p] = NextSlot(head[p]) /\ cell'[p] = [cell[p] EXCEPT ![NextSlot(head[p])] = b]
    BY <1>1, <1>2, <1>3
<1>5. PICK ring \in [Slot -> Bytes], h \in Slot, t \in Slot :
          /\ ring = cell[p] /\ h = head[p]
          /\ t = IF Taking(p) THEN NextTaken ELSE TailOf(p)
    <2>1. NextTaken \in Slot
        BY <1>3, SlotMoves DEF NextTaken
    <2> QED BY <1>3, <2>1
<1> DEFINE stored == [ring EXCEPT ![NextSlot(h)] = b]
<1>6. /\ Waiting(p) = IF Taking(p) THEN Behind(ring, h, t) ELSE Contents(ring, h, t)
      /\ Waiting(p)' = IF Taking(p) THEN Behind(stored, NextSlot(h), t)
                       ELSE Contents(stored, NextSlot(h), t)
    <2>1. Taking(p)' = Taking(p) /\ NextTaken' = NextTaken /\ TailOf(p)' = TailOf(p)
        BY <1>1, <1>3 DEF Taking, NextTaken
    <2>2. head'[p] = NextSlot(h) /\ cell'[p] = stored
        BY <1>4, <1>5
    <2> HIDE DEF stored
    <2> QED BY <1>5, <2>1, <2>2 DEF Waiting, Behind
<1>7. \A q \in Ports : q # p => Waiting(q)' = Waiting(q)
    <2>1. \A q \in Ports : q # p => head'[q] = head[q] /\ cell'[q] = cell[q]
        BY <1>1, <1>2, <1>3
    <2>2. \A q \in Ports : Taking(q)' = Taking(q)
        BY <1>1 DEF Taking
    <2>3. NextTaken' = NextTaken
        BY <1>1 DEF NextTaken
    <2> QED BY <1>3, <2>1, <2>2, <2>3 DEF Waiting
<1>8. CASE NextSlot(h) # t
    <2>1. Waiting(p)' = Append(Waiting(p), b) /\ Len(Waiting(p)) < BUFFSIZE + 1
        <3>1. CASE Taking(p)
            <4>1. /\ Behind(stored, NextSlot(h), t) = Append(Behind(ring, h, t), b)
                  /\ Len(Behind(ring, h, t)) < BUFFSIZE + 1
                BY <1>8, StoreBehind
            <4> HIDE DEF stored
            <4> QED BY <1>6, <3>1, <4>1
        <3>2. CASE ~Taking(p)
            <4>1. /\ Contents(stored, NextSlot(h), t) = Append(Contents(ring, h, t), b)
                  /\ Len(Contents(ring, h, t)) < BUFFSIZE
                BY <1>8, StoreAppends
            <4>2. Len(Contents(ring, h, t)) \in Nat
                BY RingFacts, <1>3
            <4> HIDE DEF stored
            <4> QED BY <1>3, <1>6, <3>2, <4>1, <4>2
        <3> QED BY <3>1, <3>2
    <2>2. [q \in Ports |-> Queue(q)]'
            = [[q \in Ports |-> Queue(q)] EXCEPT ![p] = Append(@, b)]
        BY <1>b, <1>7, <2>1
    <2>3. Input!Receive(p)
        BY <1>1, <1>a, <1>b, <2>1, <2>2 DEF Input!Receive
    <2> QED BY <2>3 DEF Input!InputNext
<1>9. CASE NextSlot(h) = t
    <2>1. p \notin KEPTUP \cap InUse
        <3>1. ASSUME p \in KEPTUP \cap InUse, Taking(p), pc = "take" PROVE FALSE
            <4>1. NextSlot(h) = NextSlot(tail[p]) /\ h # tail[p] /\ tail[p] \in Slot
                BY <1>3, <1>5, <1>9, <3>1 DEF TakesWaiting, Taking, NextTaken
            <4> QED BY <4>1, ComAssumption DEF NextSlot, Slot
        <3>2. ASSUME p \in KEPTUP \cap InUse, Taking(p), pc # "take" PROVE FALSE
            BY <1>1, <1>5, <1>9, <3>2 DEF Taking, NextTaken, TailOf
        <3> QED BY <1>1, <1>5, <1>9, <3>1, <3>2
    <2>2. Waiting(p)' \in {<<>>} \cup {<<c>> : c \in Bytes} /\ Len(Waiting(p)) >= BUFFSIZE
        <3>1. CASE Taking(p)
            <4>1. Behind(stored, NextSlot(h), t) = <<b>> /\ Len(Behind(ring, h, t)) >= BUFFSIZE
                BY <1>9, StoreBehind
            <4> HIDE DEF stored
            <4> QED BY <1>6, <3>1, <4>1
        <3>2. CASE ~Taking(p)
            <4>1. Contents(stored, NextSlot(h), t) = <<>> /\ Len(Contents(ring, h, t)) = BUFFSIZE
                BY <1>9, NoneHeld, StoreMeets
            <4> HIDE DEF stored
            <4> QED BY <1>3, <1>6, <3>2, <4>1
        <3> QED BY <3>1, <3>2
    <2>3. PICK queue \in {<<>>} \cup {<<c>> : c \in Bytes} : queue = Waiting(p)'
        BY <2>2
    <2>4. [q \in Ports |-> Queue(q)]' = [[q \in Ports |-> Queue(q)] EXCEPT ![p] = queue]
        BY <1>b, <1>7, <2>3
    <2>5. Len([q \in Ports |-> Queue(q)][p]) >= (BUFFSIZE + 1) - 1
        BY <1>b, <1>3, <2>2
    <2>6. p \in Ports \ KEPTUP \/ p \notin InUse
        BY <2>1
    <2>7. Input!Overrun(p)
        BY <1>1, <1>a, <2>3, <2>4, <2>5, <2>6 DEF Input!Overrun
    <2> QED BY <2>7 DEF Input!InputNext
<1> QED BY <1>8, <1>9

(* What read_com does before it takes the character changes nothing.       *)
LEMMA ReadComKeeps == ASSUME ComTypeOK, NEW p \in Ports, ReadCom(p) PROVE Same
<1>1. /\ pc = "idle" /\ port' = p /\ UNCHANGED <<head, tail, cell, readchar>>
      /\ pc' = IF head[p] # tail[p] THEN "take" ELSE "test"
    BY DEF ReadCom, ringVars
<1>2. /\ head[p] \in Slot /\ tail[p] \in Slot /\ cell[p] \in [Slot -> Bytes]
    BY DEF ComTypeOK
<1>3. \A q \in Ports : ~Taking(q) /\ TailOf(q) = tail[q] /\ TailOf(q)' = tail[q]
    BY <1>1 DEF Taking, TailOf
<1>4. \A q \in Ports : Taking(q)' <=> q = p /\ head[p] # tail[p]
    BY <1>1 DEF Taking
<1>5. head[p] # tail[p] => NextTaken' = NextSlot(tail[p])
    BY <1>1 DEF NextTaken
<1>6. head[p] # tail[p] =>
         <<cell[p][NextSlot(tail[p])]>> \o Contents(cell[p], head[p], NextSlot(tail[p]))
            = Contents(cell[p], head[p], tail[p])
    BY <1>2, BehindTail DEF Behind
<1> QED BY <1>1, <1>3, <1>4, <1>5, <1>6 DEF Same, Waiting

LEMMA MoveTailKeeps == ASSUME ComTypeOK, MoveTail PROVE Same
<1>1. /\ pc = "take" /\ pc' = "load" /\ UNCHANGED <<head, cell, readchar, port>>
      /\ tail' = [tail EXCEPT ![port] = NextSlot(@)]
      /\ port \in Ports /\ tail \in [Ports -> Slot]
    BY DEF MoveTail, Goto, ComTypeOK
<1>2. NextTaken' = NextTaken /\ \A q \in Ports : Taking(q)' = Taking(q)
    BY <1>1 DEF NextTaken, Taking
<1>3. \A q \in Ports : ~Taking(q) => TailOf(q)' = TailOf(q)
    BY <1>1 DEF TailOf, Taking
<1> QED BY <1>1, <1>2, <1>3 DEF Same, Waiting

LEMMA TakeCharTakes ==
    ASSUME HookInv, TakeChar PROVE Input!InputNext
<1>0. ComTypeOK /\ CallsFit
    BY DEF HookInv
<1>1. /\ pc = "load" /\ pc' = "test" /\ UNCHANGED <<head, tail, cell, open, port, after>>
      /\ readchar' = [readchar EXCEPT ![port] = cell[port][tail[port]]]
    BY DEF TakeChar, Goto, portVars
<1>a. after # "exit" /\ port \in InUse /\ InUse' = InUse
    BY <1>0, <1>1 DEF CallsFit, Reading, InUse
<1>b. \A q \in Ports : Queue(q) = Waiting(q) /\ Queue(q)' = Waiting(q)'
    BY <1>1, <1>a, QueueWaits
<1>2. PICK p \in Ports : p = port
    BY <1>0 DEF ComTypeOK
<1>3. /\ head[p] \in Slot /\ tail[p] \in Slot /\ cell[p] \in [Slot -> Bytes]
    BY <1>0 DEF ComTypeOK
<1>4. /\ Waiting(p) = Behind(cell[p], head[p], tail[p])
      /\ Waiting(p)' = Contents(cell[p], head[p], tail[p])
    BY <1>1, <1>2 DEF Waiting, Behind, Taking, NextTaken, TailOf
<1>5. /\ Waiting(p) # <<>> /\ Head(Waiting(p)) = cell[p][tail[p]]
      /\ Waiting(p)' = Tail(Waiting(p))
    BY <1>3, <1>4, BehindTail
<1>6. \A q \in Ports : q # p => Waiting(q)' = Waiting(q)
    BY <1>1, <1>2 DEF Waiting, Taking, TailOf
<1>7. Input!Take(p)
    <2>1. [q \in Ports |-> Queue(q)]' = [[q \in Ports |-> Queue(q)] EXCEPT ![p] = Tail(@)]
        BY <1>b, <1>5, <1>6
    <2> QED BY <1>1, <1>2, <1>a, <1>b, <1>5, <2>1 DEF Input!Take
<1> QED BY <1>7 DEF Input!InputNext

(* The reset of head, with tail as good as reset, discards all at once. *)
LEMMA ResetHeadDiscards == ASSUME ComTypeOK, ResetHead, after # "exit" PROVE Input!InputNext
<1>1. /\ pc = "head" /\ pc' = "tail" /\ UNCHANGED <<tail, cell, open, port, after, readchar>>
      /\ head' = [head EXCEPT ![port] = 0]
      /\ port \in Ports /\ head \in [Ports -> Slot]
    BY DEF ResetHead, Goto, portVars, ComTypeOK
<1>2. ASSUME NEW q \in Ports PROVE Waiting(q)' = IF q \in {port} THEN <<>> ELSE Waiting(q)
    <2>1. CASE q = port
        <3>1. head'[q] = 0 /\ TailOf(q)' = 0 /\ 0 \in Slot
            BY <1>1, <2>1, ComAssumption DEF TailOf, Slot
        <3> QED BY <1>1, <2>1, <3>1, NoneHeld DEF Waiting, Taking
    <2>2. CASE q # port
        <3>1. head'[q] = head[q] /\ TailOf(q)' = TailOf(q) /\ cell'[q] = cell[q]
            BY <1>1, <2>2 DEF TailOf
        <3> QED BY <1>1, <2>2, <3>1 DEF Waiting, Taking
    <2> QED BY <2>1, <2>2
<1>3. \A q \in Ports : Queue(q) = Waiting(q) /\ Queue(q)' = Waiting(q)'
    BY <1>1, QueueWaits
<1>4. InUse' = InUse /\ port \notin InUse
    BY <1>1 DEF InUse
<1>5. [q \in Ports |-> Queue(q)]'
        = [q \in Ports |-> IF q \in {port} THEN <<>> ELSE [r \in Ports |-> Queue(r)][q]]
    BY <1>2, <1>3
<1>6. {port} \in SUBSET (Ports \ InUse')
    BY <1>1, <1>4
<1>7. Input!Release
    BY <1>1, <1>4, <1>5, <1>6 DEF Input!Release
<1> QED BY <1>7 DEF Input!InputNext

LEMMA ResetTailKeeps == ASSUME ComTypeOK, ResetTail PROVE Same
<1>1. /\ pc = "tail" /\ pc' = "flag" /\ UNCHANGED <<head, cell, port, readchar>>
      /\ tail' = [tail EXCEPT ![port] = 0]
      /\ port \in Ports /\ tail \in [Ports -> Slot]
    BY DEF ResetTail, Goto, ComTypeOK
<1>2. \A q \in Ports : TailOf(q)' = TailOf(q)
    BY <1>1 DEF TailOf
<1> QED BY <1>1, <1>2 DEF Same, Waiting, Taking

(* A port goes out of use when a call about it starts. *)
LEMMA CallReleases ==
    ASSUME HookInv, NEW p \in Ports, CloseCom(p) \/ OpenCom(p) PROVE Input!InputNext
<1>1. /\ pc = "idle" /\ pc' = "head" /\ port' = p /\ UNCHANGED <<ringVars, open>>
      /\ after # "exit" /\ after' # "exit"
    BY DEF CloseCom, OpenCom, portVars, HookInv, CallsFit
<1>2. Same
    BY <1>1, RingsAlone DEF ringVars
<1>3. [q \in Ports |-> Queue(q)]'
        = [q \in Ports |-> IF q \in {} THEN <<>> ELSE [r \in Ports |-> Queue(r)][q]]
    BY <1>1, <1>2, QueueWaits DEF Same
<1>4. InUse' \in SUBSET InUse
    BY <1>1 DEF InUse
<1>5. Input!Release
    <2>1. {} \in SUBSET (Ports \ InUse')
        OBVIOUS
    <2> QED BY <1>2, <1>3, <1>4, <2>1 DEF Same, Input!Release
<1> QED BY <1>5 DEF Input!InputNext

(* The byte behind the array is one cell of the ring. *)
OneReplaced(new, old, b) ==
    new = old \/ \E i \in DOMAIN old : new = [old EXCEPT ![i] = b]

LEMMA LastReplaced ==
    ASSUME NEW ring \in [Slot -> Bytes], NEW h \in Slot, NEW t \in Slot, NEW b \in Bytes,
           NEW stored, stored = [ring EXCEPT ![BUFFSIZE] = b]
    PROVE  OneReplaced(Contents(stored, h, t), Contents(ring, h, t), b)
<1> DEFINE n == Held(h, t)
           q == Contents(ring, h, t)
           r == Contents(stored, h, t)
<1>1. /\ stored[BUFFSIZE] = b /\ \A i \in Slot : i # BUFFSIZE => stored[i] = ring[i]
      /\ BUFFSIZE \in Slot
    BY ComAssumption DEF Slot
<1>2. q = [i \in 1..n |-> ring[SlotOf(t, i)]] /\ r = [i \in 1..n |-> stored[SlotOf(t, i)]]
    BY DEF Contents
<1>3. /\ \A i \in 1..n : SlotOf(t, i) \in Slot
      /\ \A i, j \in 1..n : SlotOf(t, i) = SlotOf(t, j) => i = j
    BY ComAssumption DEF Held, SlotOf, Slot
<1> HIDE DEF n, q, r
<1>4. CASE \E i \in 1..n : SlotOf(t, i) = BUFFSIZE
    <2>1. PICK i \in 1..n : SlotOf(t, i) = BUFFSIZE
        BY <1>4
    <2>2. r = [q EXCEPT ![i] = b] /\ i \in DOMAIN q
        BY <1>1, <1>2, <1>3, <2>1
    <2> QED BY <2>2 DEF OneReplaced, q, r
<1>5. CASE \A i \in 1..n : SlotOf(t, i) # BUFFSIZE
    <2>1. r = q
        BY <1>1, <1>2, <1>3, <1>5
    <2> QED BY <2>1 DEF OneReplaced, q, r
<1> QED BY <1>4, <1>5

(* It is in use again when it is hooked. *)
LEMMA HookOpens == ASSUME HookInv, Hook PROVE Input!InputNext
<1>0. ComTypeOK /\ CallsFit
    BY DEF HookInv
<1>1. /\ pc = "hook" /\ pc' = "idle" /\ after = "hook" /\ after' = "hook"
      /\ UNCHANGED <<head, tail, readchar, port>>
      /\ open' = open \cup {port} /\ port \notin open /\ port \in Ports
    BY <1>0 DEF Hook, Goto, CallsFit, ComTypeOK
<1>2. InUse' = InUse \cup {port}
    BY <1>1 DEF InUse
<1>3. \A q \in Ports : /\ Queue(q) = Contents(cell[q], head[q], tail[q])
                       /\ Queue(q)' = Contents(cell'[q], head[q], tail[q])
    BY <1>1 DEF Queue, Waiting, Taking, TailOf
<1>4. CASE UNCHANGED cell
    <2>1. UNCHANGED [q \in Ports |-> Queue(q)]
        BY <1>3, <1>4
    <2>2. Input!Open(port)
        BY <1>1, <1>2, <2>1 DEF Input!Open
    <2> QED BY <1>1, <2>2 DEF Input!InputNext
<1>5. CASE cell' # cell
    <2>1. PICK b \in Bytes :
              /\ ~SPARE /\ port - 1 \in Ports
              /\ cell' = [cell EXCEPT ![port - 1][BUFFSIZE] = b]
        BY <1>5 DEF Hook, SavedBehind
    <2>2. PICK q \in Ports : q = port - 1
        BY <2>1
    <2>3. /\ cell[q] \in [Slot -> Bytes] /\ head[q] \in Slot /\ tail[q] \in Slot
          /\ cell'[q] = [cell[q] EXCEPT ![BUFFSIZE] = b]
          /\ \A p \in Ports : p # q => cell'[p] = cell[p]
        BY <1>0, <2>1, <2>2 DEF ComTypeOK
    <2>4. OneReplaced(Queue(q)', Queue(q), b)
        <3>1. PICK ring \in [Slot -> Bytes], h \in Slot, t \in Slot :
                  ring = cell[q] /\ h = head[q] /\ t = tail[q]
            BY <2>3
        <3>2. PICK stored : stored = [ring EXCEPT ![BUFFSIZE] = b]
            OBVIOUS
        <3>3. Queue(q) = Contents(ring, h, t) /\ Queue(q)' = Contents(stored, h, t)
            BY <1>3, <2>3, <3>1, <3>2
        <3> QED BY <3>2, <3>3, LastReplaced
    <2>5. \A p \in Ports : p # q => Queue(p)' = Queue(p)
        BY <1>3, <2>3
    <2>6. CASE Queue(q)' = Queue(q)
        <3>1. UNCHANGED [p \in Ports |-> Queue(p)]
            BY <2>5, <2>6
        <3>2. Input!Open(port)
            BY <1>1, <1>2, <3>1 DEF Input!Open
        <3> QED BY <1>1, <3>2 DEF Input!InputNext
    <2>7. ASSUME NEW i \in DOMAIN Queue(q), Queue(q)' = [Queue(q) EXCEPT ![i] = b]
          PROVE  Input!InputNext
        <3>1. [p \in Ports |-> Queue(p)]'
                = [[p \in Ports |-> Queue(p)] EXCEPT ![q] = [@ EXCEPT ![i] = b]]
            BY <2>5, <2>7
        <3>2. i \in DOMAIN [p \in Ports |-> Queue(p)][q]
            BY <2>7
        <3>3. <<port, q>> \in IF SPARE THEN {} ELSE {<<p + 1, p>> : p \in Ports}
            <4>1. port = q + 1
                BY <1>1, <2>2, ComAssumption
            <4> QED BY <2>1, <4>1
        <3>4. \E r \in Ports : \E j \in DOMAIN [p \in Ports |-> Queue(p)][r], c \in Bytes :
                 /\ <<port, r>> \in IF SPARE THEN {} ELSE {<<p + 1, p>> : p \in Ports}
                 /\ [p \in Ports |-> Queue(p)]'
                       = [[p \in Ports |-> Queue(p)] EXCEPT ![r] = [@ EXCEPT ![j] = c]]
            <4> WITNESS q \in Ports
            <4> WITNESS i \in DOMAIN [p \in Ports |-> Queue(p)][q], b \in Bytes
            <4> QED BY <3>1, <3>3
        <3>5. Input!Open(port)
            <4> HIDE DEF Queue, InUse
            <4> QED BY <1>1, <1>2, <3>4 DEF Input!Open
        <3> QED BY <1>1, <3>5 DEF Input!InputNext
    <2> QED BY <2>4, <2>6, <2>7 DEF OneReplaced
<1> QED BY <1>4, <1>5

(* The end of the program. *)
LEMMA EndReleases == ASSUME Exit \/ Break PROVE Input!InputNext
<1>1. after' = "exit" /\ readchar' = readchar
    BY DEF Exit, Break, Ends, ringVars
<1>2. InUse' = {}
    BY <1>1 DEF InUse
<1>3. [q \in Ports |-> Queue(q)]'
        = [q \in Ports |-> IF q \in Ports THEN <<>> ELSE [r \in Ports |-> Queue(r)][q]]
    BY <1>1 DEF Queue
<1>4. Input!Release
    <2>1. Ports \in SUBSET (Ports \ InUse')
        BY <1>2
    <2> QED BY <1>1, <1>2, <1>3, <2>1 DEF Input!Release
<1> QED BY <1>4 DEF Input!InputNext

LEMMA EndingStutters ==
    ASSUME HookInv, after = "exit", [Next]_vars PROVE Stutter
<1>1. pc # "idle" /\ ~Reading /\ pc # "hook"
    BY DEF HookInv, CallsFit
<1>2. ASSUME after' = "exit", readchar' = readchar PROVE Stutter
    BY <1>2 DEF Stutter, Queue, InUse
<1>3. after' = "exit" /\ readchar' = readchar
    BY <1>1 DEF Next, Reading, Interrupt, ReadCom, CloseCom, OpenCom, MoveTail, TakeChar, TestEmpty,
       ResetTriggered, ResetHead, ResetTail, ResetFlags, Mask, Restore, Hook, Exit, Break, Ends,
       CloseNext, End, Goto, vars, ringVars, programVars
<1> QED BY <1>2, <1>3

LEMMA InputStep ==
    ASSUME HookInv, HookInv', TakesWaiting, [Next]_vars
    PROVE  Input!InputNext \/ Stutter
<1>0. ComTypeOK /\ CallsFit /\ CallsFit' /\ after \in {"idle", "hook", "exit"}
    BY DEF HookInv, ComTypeOK
<1>1. CASE after = "exit"
    BY <1>1, EndingStutters
<1>2. CASE after # "exit"
    <2>1. ASSUME NEW p \in Ports, ReadCom(p) PROVE Stutter
        <3>1. Same /\ UNCHANGED <<open, after>> /\ pc = "idle" /\ pc' \in {"take", "test"}
            BY <1>0, <2>1, ReadComKeeps DEF ReadCom, portVars
        <3>2. InUse' = InUse
            BY <1>2, <3>1 DEF InUse
        <3> QED BY <1>2, <3>1, <3>2, SameStutters
    <2>2. CASE MoveTail \/ TestEmpty \/ ResetTriggered
        <3>1. Same
            BY <1>0, <2>2, MoveTailKeeps, RingsAlone DEF TestEmpty, ResetTriggered, Goto, ringVars
        <3>2. /\ UNCHANGED <<open, after>> /\ pc \in {"take", "test", "reset"}
              /\ pc' \in {"load", "reset", "idle"}
            BY <2>2 DEF MoveTail, TestEmpty, ResetTriggered, Goto, portVars
        <3>3. InUse' = InUse
            BY <1>2, <3>2 DEF InUse
        <3> QED BY <1>2, <3>1, <3>2, <3>3, SameStutters
    <2>3. CASE ResetTail \/ ResetFlags \/ Mask \/ Restore
        <3>1. Same
            BY <1>0, <2>3, ResetTailKeeps, RingsAlone DEF ResetFlags, Mask, Restore, Goto, ringVars
        <3>2. /\ UNCHANGED <<port, after>> /\ open' \in {open, open \ {port}}
              /\ pc \in {"tail", "flag", "unhook", "restore"}
              /\ \/ pc' \in {"flag", "unhook", "restore", "hook"}
                 \/ pc' = "idle" /\ port \notin open'
            BY <1>0, <1>2, <2>3 DEF ResetTail, ResetFlags, Mask, Restore, Goto, portVars, CallsFit
        <3>3. InUse' = InUse
            BY <1>2, <3>2 DEF InUse
        <3> QED BY <1>2, <3>1, <3>2, <3>3, SameStutters
    <2>4. CASE CloseNext \/ End
        BY <1>0, <1>2, <2>4 DEF CloseNext, End, CallsFit
    <2>5. CASE UNCHANGED vars
        BY <2>5 DEF Stutter, Queue, Waiting, TailOf, Taking, NextTaken, InUse, vars, ringVars,
           portVars, programVars
    <2> QED BY <1>0, <1>2, <2>1, <2>2, <2>3, <2>4, <2>5, InterruptReceives, TakeCharTakes,
               ResetHeadDiscards, CallReleases, HookOpens, EndReleases DEF Next
<1> QED BY <1>1, <1>2

(* A program reads the characters that came in, each once and in order,    *)
(* with interrupts at any moment of any call and for every size of the     *)
(* ring; a port in use that it keeps up with loses nothing, and the only   *)
(* character that can change is the one in the byte behind the array: the  *)
(* library implements SerialInput.                                         *)
THEOREM RefinesInput == Spec => ImplementsInput
<1>1. Init => Input!InputInit
    <2> SUFFICES ASSUME Init PROVE Input!InputInit
        OBVIOUS
    <2>1. \A p \in Ports : Queue(p) = <<>>
        BY ComAssumption, NoneHeld DEF Init, Queue, Waiting, TailOf, Taking, Slot
    <2>2. InUse = {}
        BY DEF Init, InUse
    <2> QED BY <2>1, <2>2 DEF Init, Input!InputInit
<1>2. Init => TakesWaiting
    BY DEF Init, TakesWaiting
<1>3. HookInv /\ TakesWaiting /\ [Next]_vars => TakesWaiting'
    BY TakesWaitingStep
<1>4. HookInv /\ HookInv' /\ TakesWaiting /\ [Next]_vars => [Input!InputNext]_(Input!inputVars)
    BY InputStep, StutterKeeps
<1> QED BY <1>1, <1>2, <1>3, <1>4, HookInvariant, PTL DEF Spec, ImplementsInput, Input!InputSpec
=============================================================================
