----------------------------- MODULE ComPortDos -----------------------------
(***************************************************************************)
(* The DOS serial library (gftermio/os/gftiotc.c): ports 1 to 4, of which  *)
(* 1 and 3 share one interrupt line and 2 and 4 the other.  Two actors:    *)
(* the program, whose calls are broken into the steps between which an     *)
(* interrupt can be served, and the interrupt handlers, which run as one   *)
(* step, and so does what stands between disable() and enable().  What a   *)
(* handler and the program share is the ring buffer of the port and its    *)
(* `triggered' flag; a ctrl-break ends the program at any step.            *)
(*                                                                         *)
(* The indexes of a ring run to BUFFSIZE, one past the array: the byte     *)
(* behind it is written and read too.  If it belongs to a variable of this *)
(* file it is the one declared next without an initial value, the vector   *)
(* saved for the next port.                                                *)
(***************************************************************************)
EXTENDS Integers, FiniteSets, Sequences

CONSTANTS
    Ports,     \* the ports the program uses
    BUFFSIZE,  \* length of intbuffer (6000 in the code)
    Bytes,     \* the characters that can come in
    SPARE,     \* the byte behind intbuffer belongs to no variable
    KEPTUP     \* the ports whose characters are taken before the ring is full

ASSUME ComAssumption ==
    /\ Ports \subseteq 1..4
    /\ BUFFSIZE \in Nat \ {0}
    /\ Bytes # {}
    /\ SPARE \in BOOLEAN
    /\ KEPTUP \subseteq Ports

VARIABLES
    open,       \* the ports whose com_is_open is set
    head, tail, \* of the ring: last character put in, last taken out
    cell,       \* intbuffer, and the byte behind it that the indexes reach
    triggered,  \* com_triggered
    readchar,   \* holdreadchar
    intson,     \* those that raise interrupts (MODEMCTRL bit 3 and INTENREG)
    vector,     \* the interrupt vectors: Original, Null, Wild, or a port's handler
    holdvector, \* holdvector
    guarded,    \* com_bullet_proofed: 1 if the exit handlers are registered
    pc,         \* where the program stands
    port,       \* the port its call is about
    after,      \* where a call goes once the port is closed
    left,       \* the ports close_com(0) has yet to close
    cut         \* history: the ports a ctrl-break left half closed

ringVars    == <<head, tail, cell, triggered, readchar>>
portVars    == <<open, intson, vector, holdvector, guarded>>
programVars == <<pc, port, after, left, cut>>
vars        == <<ringVars, portVars, programVars>>

Irqs == {3, 4}
Irq(p) == IF p \in {1, 3} THEN 4 ELSE 3

(* The port whose saved vector close_com_single puts back. *)
Restored(p) == IF p \in {1, 3} THEN 1 ELSE 2

Original == 0
Null     == -1
Wild     == -2   \* a saved vector with a character stored in it

Slot == 0..BUFFSIZE

(* mutant: if (index <= BUFFSIZE) *)
NextSlotPast(i) == IF i <= BUFFSIZE THEN i + 1 ELSE 0

(* if (index < BUFFSIZE) index++; else index = 0; *)
NextSlot(i) == IF i < BUFFSIZE THEN i + 1 ELSE 0

Init ==
    /\ open = {}
    /\ head = [p \in Ports |-> 0]
    /\ tail = [p \in Ports |-> 0]
    /\ \E zero \in Bytes :
          /\ cell = [p \in Ports |-> [i \in Slot |-> zero]]
          /\ readchar = [p \in Ports |-> zero]
    /\ triggered = [p \in Ports |-> 0]
    /\ intson = {}
    /\ vector = [irq \in Irqs |-> Original]
    /\ holdvector = [p \in 1..4 |-> Null]
    /\ guarded = 0
    /\ pc = "idle"
    /\ port \in Ports
    /\ after = "idle"
    /\ left = {}
    /\ cut = {}

(* While a close has reset head and not yet tail, tail is as good as reset. *)
TailOf(p) == IF pc = "tail" /\ port = p THEN 0 ELSE tail[p]

(* The open ports that no open, close or exit is busy with. *)
InUse ==
    IF after = "exit" THEN {}
    ELSE IF pc \in {"head", "tail", "flag", "unhook", "restore", "hook"} THEN open \ {port}
    ELSE open

-----------------------------------------------------------------------------
(* A store behind the array changes the next port's saved vector, unless   *)
(* the byte is the one it had.                                             *)
StoredBehind(p) ==
    \/ UNCHANGED holdvector
    \/ /\ head'[p] = BUFFSIZE /\ ~SPARE
       /\ p + 1 \in DOMAIN holdvector
       /\ holdvector' = [holdvector EXCEPT ![p + 1] = Wild]

(* inthandlerN, on a character that comes in.  Nothing can interrupt it,   *)
(* and it does not look at tail: only the program's pace keeps head from   *)
(* meeting it.  When they meet the ring looks empty.                       *)
(* mutant: the character is stored before the index moves *)
InterruptStoresFirst(p) ==
    /\ p \in intson
    /\ vector[Irq(p)] = p
    /\ p \in KEPTUP \cap InUse => NextSlot(head[p]) # TailOf(p)
    /\ \E b \in Bytes : cell' = [cell EXCEPT ![p][head[p]] = b]
    /\ head' = [head EXCEPT ![p] = NextSlot(@)]
    /\ triggered' = [triggered EXCEPT ![p] = 1]
    /\ StoredBehind(p)
    /\ UNCHANGED <<tail, readchar, open, intson, vector, guarded, programVars>>

Interrupt(p) ==
    /\ p \in intson
    /\ vector[Irq(p)] = p
    /\ p \in KEPTUP \cap InUse => NextSlot(head[p]) # TailOf(p)
    /\ head' = [head EXCEPT ![p] = NextSlot(@)]
    /\ \E b \in Bytes : cell' = [cell EXCEPT ![p][head'[p]] = b]
    /\ triggered' = [triggered EXCEPT ![p] = 1]
    /\ StoredBehind(p)
    /\ UNCHANGED <<tail, readchar, open, intson, vector, guarded, programVars>>

-----------------------------------------------------------------------------
Goto(label) ==
    /\ pc' = label
    /\ UNCHANGED <<port, after, left, cut>>

(* read_com.  A port that is not open returns 0 and changes nothing. *)
ReadCom(p) ==
    /\ pc = "idle"
    /\ p \in open
    /\ port' = p
    /\ pc' = IF head[p] # tail[p] THEN "take" ELSE "test"
    /\ UNCHANGED <<ringVars, portVars, after, left, cut>>

(* An interrupt that comes between these two can still change the          *)
(* character they take.                                                    *)
MoveTail ==
    /\ pc = "take"
    /\ tail' = [tail EXCEPT ![port] = NextSlot(@)]
    /\ Goto("load")
    /\ UNCHANGED <<head, cell, triggered, readchar, portVars>>

TakeChar ==
    /\ pc = "load"
    /\ readchar' = [readchar EXCEPT ![port] = cell[port][tail[port]]]
    /\ Goto("test")
    /\ UNCHANGED <<head, tail, cell, triggered, portVars>>

(* The second test of the indexes, and what it decides a moment later. *)
TestEmpty ==
    /\ pc = "test"
    /\ Goto(IF head[port] = tail[port] THEN "reset" ELSE "idle")
    /\ UNCHANGED <<ringVars, portVars>>

ResetTriggered ==
    /\ pc = "reset"
    /\ triggered' = [triggered EXCEPT ![port] = 0]
    /\ Goto("idle")
    /\ UNCHANGED <<head, tail, cell, readchar, portVars>>

-----------------------------------------------------------------------------
(* close_com of one port, and close_com(0), which closes them in order.    *)
CloseCom(p) ==
    /\ pc = "idle"
    /\ pc' = "head" /\ port' = p /\ after' = "idle"
    /\ UNCHANGED <<ringVars, portVars, left, cut>>

(* close_com_single, up to its test of the open flag, outside disable(). *)
ResetHead ==
    /\ pc = "head"
    /\ head' = [head EXCEPT ![port] = 0]
    /\ Goto("tail")
    /\ UNCHANGED <<tail, cell, triggered, readchar, portVars>>

ResetTail ==
    /\ pc = "tail"
    /\ tail' = [tail EXCEPT ![port] = 0]
    /\ Goto("flag")
    /\ UNCHANGED <<head, cell, triggered, readchar, portVars>>

(* mutant: the open flag is not tested *)
ResetFlagsUntested ==
    /\ pc = "flag"
    /\ triggered' = [triggered EXCEPT ![port] = 0]
    /\ open' = open \ {port}
    /\ Goto("unhook")
    /\ UNCHANGED <<head, tail, cell, readchar, intson, vector, holdvector, guarded>>

ResetFlags ==
    /\ pc = "flag"
    /\ triggered' = [triggered EXCEPT ![port] = 0]
    /\ open' = open \ {port}
    /\ Goto(IF port \in open THEN "unhook" ELSE after)
    /\ UNCHANGED <<head, tail, cell, readchar, intson, vector, holdvector, guarded>>

(* The write of MODEMCTRL. *)
Mask ==
    /\ pc = "unhook"
    /\ intson' = intson \ {port}
    /\ Goto("restore")
    /\ UNCHANGED <<ringVars, open, vector, holdvector, guarded>>

Restore ==
    /\ pc = "restore"
    /\ vector' = [vector EXCEPT ![Irq(port)] = holdvector[Restored(port)]]
    /\ Goto(after)
    /\ UNCHANGED <<ringVars, open, intson, holdvector, guarded>>

-----------------------------------------------------------------------------
(* open_com_dtrrts: refused while the other port of the line is open (1    *)
(* and 3, 2 and 4 pair up to the sums 4 and 6); else the port is closed,   *)
(* open or not, and then set up.                                           *)
Partner(p) == (IF p \in {1, 3} THEN 4 ELSE 6) - p

(* mutant: the other port of the line is not looked at *)
OpenComAnyway(p) ==
    /\ pc = "idle"
    /\ pc' = "head" /\ port' = p /\ after' = "hook"
    /\ UNCHANGED <<ringVars, portVars, left, cut>>

OpenCom(p) ==
    /\ pc = "idle"
    /\ Partner(p) \notin open
    /\ pc' = "head" /\ port' = p /\ after' = "hook"
    /\ UNCHANGED <<ringVars, portVars, left, cut>>

(* The vector saved can be the byte behind the ring of the port before. *)
SavedBehind ==
    \/ UNCHANGED cell
    \/ /\ ~SPARE /\ port - 1 \in Ports
       /\ \E b \in Bytes : cell' = [cell EXCEPT ![port - 1][BUFFSIZE] = b]

(* mutant: the exit handler is never registered *)
HookUnguarded ==
    /\ pc = "hook"
    /\ holdvector' = [holdvector EXCEPT ![port] = vector[Irq(port)]]
    /\ vector' = [vector EXCEPT ![Irq(port)] = port]
    /\ open' = open \cup {port}
    /\ intson' = intson \cup {port}
    /\ SavedBehind
    /\ Goto("idle")
    /\ UNCHANGED <<head, tail, triggered, readchar, guarded>>

Hook ==
    /\ pc = "hook"
    /\ guarded' = 1
    /\ holdvector' = [holdvector EXCEPT ![port] = vector[Irq(port)]]
    /\ vector' = [vector EXCEPT ![Irq(port)] = port]
    /\ open' = open \cup {port}
    /\ intson' = intson \cup {port}
    /\ SavedBehind
    /\ Goto("idle")
    /\ UNCHANGED <<head, tail, triggered, readchar>>

-----------------------------------------------------------------------------
(* The program ends: com_exit_handler closes the ports, if it was          *)
(* registered.                                                             *)
Ends ==
    /\ pc' = "exit" /\ after' = "exit"
    /\ left' = IF guarded = 1 THEN Ports ELSE {}
    /\ UNCHANGED <<ringVars, portVars, port>>

Exit ==
    /\ pc = "idle"
    /\ Ends
    /\ UNCHANGED cut

(* A ctrl-break ends it at any step, and what it was doing is not resumed: *)
(* c_brk_handler closes the ports whose open flag is set, which is no      *)
(* longer so of one that a close has not yet unhooked.                     *)
Break ==
    /\ pc # "done"
    /\ Ends
    /\ cut' = cut \cup (IF pc \in {"unhook", "restore"} THEN {port} ELSE {})

CloseNext ==
    /\ pc = "exit"
    /\ \E p \in left :
          /\ \A q \in left : p <= q
          /\ port' = p
          /\ left' = left \ {p}
    /\ pc' = "head"
    /\ UNCHANGED <<ringVars, portVars, after, cut>>

End ==
    /\ pc = "exit"
    /\ left = {}
    /\ Goto("done")
    /\ UNCHANGED <<ringVars, portVars>>

Next ==
    \/ \E p \in Ports : Interrupt(p) \/ ReadCom(p) \/ CloseCom(p) \/ OpenCom(p)
    \/ MoveTail \/ TakeChar \/ TestEmpty \/ ResetTriggered
    \/ ResetHead \/ ResetTail \/ ResetFlags \/ Mask \/ Restore \/ Hook
    \/ Exit \/ Break \/ CloseNext \/ End

Spec == Init /\ [][Next]_vars

-----------------------------------------------------------------------------
(* Types: the indexes stay in 0..BUFFSIZE, one more than the array has. *)
ComTypeOK ==
    /\ open \subseteq Ports /\ intson \subseteq Ports
    /\ head \in [Ports -> Slot] /\ tail \in [Ports -> Slot]
    /\ cell \in [Ports -> [Slot -> Bytes]]
    /\ triggered \in [Ports -> 0..1]
    /\ readchar \in [Ports -> Bytes]
    /\ vector \in [Irqs -> Ports \cup {Original, Null, Wild}]
    /\ holdvector \in [1..4 -> Ports \cup {Original, Null, Wild}]
    /\ guarded \in 0..1
    /\ pc \in {"idle", "take", "load", "test", "reset", "head", "tail", "flag", "unhook",
               "restore", "hook", "exit", "done"}
    /\ port \in Ports
    /\ after \in {"idle", "hook", "exit"}
    /\ left \subseteq Ports /\ cut \subseteq Ports

(* "may not use more than one per IRQ" (gftiotc.c:875), whatever order the *)
(* ports are opened, re-opened and closed in.                              *)
OnePortPerIrq == \A p \in open : Partner(p) \notin open

(* A port that raises interrupts has its own handler in place: a character *)
(* that comes in at any moment of an open, a close or an exit is served by *)
(* the handler of the port it came to.                                     *)
HandlerInPlace == \A p \in intson : vector[Irq(p)] = p

(* A program that has ended has a handler installed, or interrupts on, only *)
(* for a port that a ctrl-break found marked closed and not yet unhooked:  *)
(* every other one is closed by the exit handlers (gftiotc.c:516-519),     *)
(* whatever call was under way.                                            *)
HandlerLeftOnlyByBreak ==
    pc = "done" =>
        /\ intson \subseteq cut
        /\ \A irq \in Irqs : vector[irq] \in Ports => vector[irq] \in cut

(* The ring as a queue: the characters after tail up to head. *)
Held(h, t)   == IF h >= t THEN h - t ELSE h - t + BUFFSIZE + 1
SlotOf(t, i) == IF t + i <= BUFFSIZE THEN t + i ELSE t + i - (BUFFSIZE + 1)

Contents(ring, h, t) == [i \in 1..Held(h, t) |-> ring[SlotOf(t, i)]]

(* A read_com that has found a character takes the one in this slot,       *)
(* whatever comes in meanwhile.                                            *)
Taking(p) == port = p /\ pc \in {"take", "load"}

NextTaken == IF pc = "take" THEN NextSlot(tail[port]) ELSE tail[port]

Waiting(p) ==
    IF Taking(p)
    THEN <<cell[p][NextTaken]>> \o Contents(cell[p], head[p], NextTaken)
    ELSE Contents(cell[p], head[p], TailOf(p))

(* A program that is ending reads no more. *)
Queue(p) == IF after = "exit" THEN <<>> ELSE Waiting(p)

Input == INSTANCE SerialInput WITH
    CAPACITY <- BUFFSIZE + 1,
    LATE <- Ports \ KEPTUP,
    REOPENED <- {},
    NEIGHBOURS <- IF SPARE THEN {} ELSE {<<p + 1, p>> : p \in Ports},
    inuse <- InUse,
    pending <- [p \in Ports |-> Queue(p)],
    taken <- readchar

(* With interrupts at any moment of any call, the characters taken are the *)
(* ones that came in, each once and in order.  While a port is in use none *)
(* of those that wait is lost, whatever other ports are opened and closed, *)
(* unless the ring is full - of it or after it the newest at most is left  *)
(* - and none is changed, but for the one behind the array.                *)
ImplementsInput == Input!InputSpec

(* With every port closed again the interrupt vectors are the ones the     *)
(* program found ("save original vector", gftiotc.c:969, and "restore      *)
(* IRQ4", :488).                                                           *)
VectorsRestored ==
    pc = "idle" /\ open = {} => \A irq \in Irqs : vector[irq] = Original
=============================================================================
