---------------------------- MODULE ComPortLinux ----------------------------
(***************************************************************************)
(* The Linux serial library (gftermio/os/gftiolin.c), used through the     *)
(* calls of gftermio.h.  Three actors: the program, whose calls are broken *)
(* into the steps between which a signal can be handled; the devices,      *)
(* which put characters in their driver's queue and raise SIGIO; and the   *)
(* handler of that signal, of which a process has only one, whatever the   *)
(* number of ports.                                                        *)
(***************************************************************************)
EXTENDS Integers, FiniteSets, Sequences

CONSTANTS
    Ports,     \* the ports the program uses
    Failing,   \* those whose reads and writes can fail for good (unplugged)
    QUEUE,     \* length of a driver's input queue
    FDS,       \* file descriptors the process may have open
    Bytes,     \* the characters that come in and go out
    Lines,     \* the strings sent with com_string_crlf
    CrLf,      \* what that call appends
    Rates,     \* the rates asked for
    RateBits,  \* the bits of c_cflag each of them stands for (termios.h)
    Widths,    \* the bits per character asked for
    REOPENED   \* the ports the program also opens while they are open

ASSUME LinuxAssumption ==
    /\ Ports \subseteq 1..8
    /\ Failing \subseteq Ports
    /\ QUEUE \in Nat \ {0} /\ FDS \in Nat
    /\ Bytes # {}
    /\ Lines \subseteq Seq(Bytes) /\ CrLf \in Seq(Bytes)
    /\ RateBits \in [Rates -> SUBSET Nat]
    /\ Widths \subseteq 5..8
    /\ REOPENED \subseteq Ports

VARIABLES
    open,      \* the ports whose openport is not -1
    used,      \* the number of file descriptors in use: none is ever closed
    attached,  \* the ports that have one
    async,     \* the ports that raise SIGIO
    handler,   \* the port whose handler SIGIO has, 0 for the default action
    sigio,     \* 1 while a SIGIO is pending: a second one merges with it
    driver,    \* per port, the characters in the driver's queue
    waitflag,  \* wait_flag: 0 once the signal was handled
    datavail,  \* port_data_avail: what the last read returned, 0 if used up
    buf,       \* buf[0]
    tio,       \* the device's settings, as the bits of c_cflag
    oldtio,    \* what close_com puts back
    newtio,    \* what open_com sets: kept from one open to the next
    asked,     \* history: the rate last asked for
    pc, port,  \* where the program stands, and its call's port
    out, left, \* of com_string_crlf: what went out, and what has yet to
    taken,     \* the last character read_com returned
    answer,    \* what the last avail_com returned
    waited     \* history: a character waited when that call was made

deviceVars == <<used, attached, async, handler, driver>>
settings   == <<tio, oldtio, newtio, asked>>
inputs     == <<waitflag, datavail, buf>>
lineVars   == <<out, left>>
results    == <<taken, answer, waited>>
vars == <<open, deviceVars, sigio, inputs, settings, pc, port, lineVars, results>>

Original == {-1}   \* the settings a device had before the program

Init ==
    /\ open = {}
    /\ used = 0
    /\ attached = {}
    /\ async = {}
    /\ handler = 0
    /\ sigio = 0
    /\ driver = [p \in Ports |-> <<>>]
    /\ waitflag = [p \in Ports |-> 1]
    /\ datavail = [p \in Ports |-> 0]
    /\ \E zero \in Bytes :
          /\ buf = [p \in Ports |-> zero]
          /\ taken = [p \in Ports |-> zero]
    /\ tio = [p \in Ports |-> Original]
    /\ oldtio = [p \in Ports |-> {}]
    /\ newtio = [p \in Ports |-> {}]
    /\ asked \in [Ports -> Rates]
    /\ pc = "idle"
    /\ port \in Ports
    /\ out = <<>> /\ left = <<>>
    /\ answer = "none" /\ waited = 0

(* The queue of a port that is being opened has yet to be flushed. *)
Opening(p) == port = p /\ pc \in {"open", "install", "async", "flush"}

InUse == {p \in open : ~Opening(p)}

(* The characters a port still owes the program. *)
Pending(p) ==
    IF p \in InUse
    THEN (IF datavail[p] = 1 THEN <<buf[p]>> ELSE <<>>) \o driver[p]
    ELSE <<>>

-----------------------------------------------------------------------------
(* A character comes in: the device must be open, if only by a descriptor  *)
(* that was left behind.  One that finds the queue full is lost.           *)
Arrive(p) ==
    /\ p \in attached
    /\ Len(driver[p]) < QUEUE
    /\ \E b \in Bytes : driver' = [driver EXCEPT ![p] = Append(@, b)]
    /\ sigio' = IF p \in async THEN 1 ELSE sigio
    /\ UNCHANGED <<open, used, attached, async, handler, inputs, settings, pc, port, lineVars, results>>

(* sig_handlerN, whichever device the signal is about. *)
SigHandler ==
    /\ sigio = 1
    /\ handler \in Ports
    /\ sigio' = 0
    /\ waitflag' = [waitflag EXCEPT ![handler] = 0]
    /\ UNCHANGED <<open, deviceVars, datavail, buf, settings, pc, port, lineVars, results>>

-----------------------------------------------------------------------------
(* read(fd, buf, 1) with VMIN and VTIME 0. *)
ReadDevice ==
    \/ /\ driver[port] # <<>>
       /\ buf' = [buf EXCEPT ![port] = Head(driver[port])]
       /\ driver' = [driver EXCEPT ![port] = Tail(@)]
       /\ datavail' = [datavail EXCEPT ![port] = 1]
    \/ /\ driver[port] = <<>>
       /\ datavail' = [datavail EXCEPT ![port] = 0]
       /\ UNCHANGED <<buf, driver>>
    \/ /\ port \in Failing
       /\ datavail' = [datavail EXCEPT ![port] = -1]
       /\ UNCHANGED <<buf, driver>>

Goto(label) == pc' = label /\ UNCHANGED port

(* read_com, up to its first read. *)
ReadCom(p) ==
    /\ pc = "idle"
    /\ p \in open
    /\ port' = p
    /\ pc' = IF waitflag[p] = 0 /\ datavail[p] = 0 THEN "read" ELSE "reset"
    /\ answer' = "none"
    /\ UNCHANGED <<open, deviceVars, sigio, inputs, settings, lineVars, taken, waited>>

ReadSignalled ==
    /\ pc = "read"
    /\ ReadDevice
    /\ Goto("reset")
    /\ UNCHANGED <<open, used, attached, async, handler, sigio, waitflag, settings, lineVars, results>>

ResetSignal ==
    /\ pc = "reset"
    /\ waitflag' = [waitflag EXCEPT ![port] = 1]
    /\ Goto(IF datavail[port] = 0 THEN "again" ELSE "give")
    /\ UNCHANGED <<open, deviceVars, sigio, datavail, buf, settings, lineVars, results>>

ReadAgain ==
    /\ pc = "again"
    /\ ReadDevice
    /\ Goto("give")
    /\ UNCHANGED <<open, used, attached, async, handler, sigio, waitflag, settings, lineVars, results>>

(* mutant: the character read ahead is not marked as used *)
GiveCharKept ==
    /\ pc = "give"
    /\ taken' = IF datavail[port] = 0 THEN taken ELSE [taken EXCEPT ![port] = buf[port]]
    /\ Goto("idle")
    /\ UNCHANGED <<open, deviceVars, sigio, inputs, settings, lineVars, answer, waited>>

(* With nothing read a NUL is returned, which is not a character taken. *)
GiveChar ==
    /\ pc = "give"
    /\ taken' = IF datavail[port] = 0 THEN taken ELSE [taken EXCEPT ![port] = buf[port]]
    /\ datavail' = [datavail EXCEPT ![port] = 0]
    /\ Goto("idle")
    /\ UNCHANGED <<open, deviceVars, sigio, waitflag, buf, settings, lineVars, answer, waited>>

-----------------------------------------------------------------------------
(* mutant: the signal is trusted, and nothing is polled *)
AvailComNoPoll(p) ==
    /\ pc = "idle"
    /\ p \in open
    /\ port' = p
    /\ waited' = IF Pending(p) # <<>> THEN 1 ELSE 0
    /\ answer' = IF datavail[p] # 0 \/ waitflag[p] = 0 THEN "yes" ELSE "no"
    /\ UNCHANGED <<open, deviceVars, sigio, inputs, settings, pc, lineVars, taken>>

(* mutant: the character read ahead is not looked at *)
AvailComPolls(p) ==
    /\ pc = "idle"
    /\ p \in open
    /\ port' = p
    /\ waited' = IF Pending(p) # <<>> THEN 1 ELSE 0
    /\ IF waitflag[p] = 0
       THEN pc' = "idle" /\ answer' = "yes"
       ELSE pc' = "poll" /\ answer' = "none"
    /\ UNCHANGED <<open, deviceVars, sigio, inputs, settings, lineVars, taken>>

(* avail_com: a character read ahead or a signal says yes; else it polls. *)
AvailCom(p) ==
    /\ pc = "idle"
    /\ p \in open
    /\ port' = p
    /\ waited' = IF Pending(p) # <<>> THEN 1 ELSE 0
    /\ IF datavail[p] # 0 \/ waitflag[p] = 0
       THEN pc' = "idle" /\ answer' = "yes"
       ELSE pc' = "poll" /\ answer' = "none"
    /\ UNCHANGED <<open, deviceVars, sigio, inputs, settings, lineVars, taken>>

Poll ==
    /\ pc = "poll"
    /\ ReadDevice
    /\ answer' = IF datavail'[port] = 0 THEN "no" ELSE "yes"
    /\ Goto("idle")
    /\ UNCHANGED <<open, used, attached, async, handler, sigio, waitflag, settings, lineVars, taken, waited>>

-----------------------------------------------------------------------------
(* mutant: a port that is open is opened again *)
OpenComTwice(p) ==
    /\ pc = "idle"
    /\ datavail' = [datavail EXCEPT ![p] = 0]
    /\ port' = p
    /\ pc' = "open"
    /\ answer' = "none"
    /\ UNCHANGED <<open, deviceVars, sigio, waitflag, buf, settings, lineVars, taken, waited>>

(* open_com_dtrrts: what was read ahead is dropped even if the port is     *)
(* already open, and then the call is refused.                             *)
OpenCom(p) ==
    /\ pc = "idle"
    /\ p \in open => p \in REOPENED
    /\ datavail' = [datavail EXCEPT ![p] = 0]
    /\ port' = p
    /\ pc' = IF p \in open THEN "idle" ELSE "open"
    /\ answer' = "none"
    /\ UNCHANGED <<open, deviceVars, sigio, waitflag, buf, settings, lineVars, taken, waited>>

OpenFails ==
    /\ pc = "open"
    /\ Goto("idle")
    /\ UNCHANGED <<open, deviceVars, sigio, inputs, settings, lineVars, results>>

OpenDevice ==
    /\ pc = "open"
    /\ used < FDS
    /\ used' = used + 1
    /\ attached' = attached \cup {port}
    /\ open' = open \cup {port}
    /\ Goto("install")
    /\ UNCHANGED <<async, handler, driver, sigio, inputs, settings, lineVars, results>>

(* mutant: the port is made to raise signals without a handler *)
InstallHandlerSkipped ==
    /\ pc = "install"
    /\ Goto("async")
    /\ UNCHANGED <<open, deviceVars, sigio, inputs, settings, lineVars, results>>

(* sigaction: the handler of a port opened earlier is replaced. *)
InstallHandler ==
    /\ pc = "install"
    /\ handler' = port
    /\ Goto("async")
    /\ UNCHANGED <<open, used, attached, async, driver, sigio, inputs, settings, lineVars, results>>

SetAsync ==
    /\ pc = "async"
    /\ async' = async \cup {port}
    /\ Goto("flush")
    /\ UNCHANGED <<open, used, attached, handler, driver, sigio, inputs, settings, lineVars, results>>

(* tcgetattr, the new settings, tcflush.  newtio is or-ed into and never   *)
(* cleared (cfmakeraw leaves the rate alone), and a width other than 8 is  *)
(* stored over the rate.                                                   *)
Flush ==
    /\ pc = "flush"
    /\ oldtio' = [oldtio EXCEPT ![port] = tio[port]]
    /\ \E rate \in Rates, width \in Widths :
          /\ asked' = [asked EXCEPT ![port] = rate]
          /\ newtio' = [newtio EXCEPT ![port] = @ \cup IF width = 8 THEN RateBits[rate] ELSE {}]
    /\ driver' = [driver EXCEPT ![port] = <<>>]
    /\ Goto("set")
    /\ UNCHANGED <<open, used, attached, async, handler, sigio, inputs, tio, lineVars, results>>

SetAttributes ==
    /\ pc = "set"
    /\ tio' = [tio EXCEPT ![port] = newtio[port]]
    /\ waitflag' = [waitflag EXCEPT ![port] = 1]
    /\ Goto("idle")
    /\ UNCHANGED <<open, deviceVars, sigio, datavail, buf, oldtio, newtio, asked, lineVars, results>>

(* close_com of one port; close_com(0) closes them all.  The descriptor is *)
(* not closed, and goes on raising signals.                                *)
Close(S) ==
    /\ pc = "idle"
    /\ S \cap open # {}
    /\ tio' = [p \in Ports |-> IF p \in S \cap open THEN oldtio[p] ELSE tio[p]]
    /\ datavail' = [p \in Ports |-> IF p \in S \cap open THEN 0 ELSE datavail[p]]
    /\ open' = open \ S
    /\ answer' = "none"
    /\ UNCHANGED <<deviceVars, sigio, waitflag, buf, oldtio, newtio, asked, pc, port, lineVars,
                   taken, waited>>

CloseCom == Close(Ports) \/ \E p \in Ports : Close({p})

-----------------------------------------------------------------------------
(* com_string_crlf on an open port: write_com for each character. *)
SendLine(p) ==
    /\ pc = "idle"
    /\ p \in open
    /\ port' = p
    /\ out' = <<>>
    /\ \E line \in Lines : left' = line \o CrLf
    /\ pc' = "write"
    /\ answer' = "none"
    /\ UNCHANGED <<open, deviceVars, sigio, inputs, settings, taken, waited>>

(* mutant: the value of write() is not used, as before the fix of 2011 *)
WriteCharOnce ==
    /\ pc = "write"
    /\ left # <<>>
    /\ \E res \in {-1, 1} : out' = IF res < 0 THEN out ELSE Append(out, Head(left))
    /\ left' = Tail(left)
    /\ UNCHANGED <<open, deviceVars, sigio, inputs, settings, pc, port, results>>

(* write returns 1, or -1: the device is busy, or a signal interrupted it  *)
(* (the handler is installed without SA_RESTART).  A failed write is tried *)
(* again until it succeeds.                                                *)
WriteChar ==
    /\ pc = "write"
    /\ left # <<>>
    /\ \E res \in {-1, 1} :
          IF res < 0 THEN UNCHANGED lineVars
          ELSE /\ out' = Append(out, Head(left))
               /\ left' = Tail(left)
    /\ UNCHANGED <<open, deviceVars, sigio, inputs, settings, pc, port, results>>

LineSent ==
    /\ pc = "write"
    /\ left = <<>>
    /\ Goto("idle")
    /\ UNCHANGED <<open, deviceVars, sigio, inputs, settings, lineVars, results>>

-----------------------------------------------------------------------------
Next ==
    \/ \E p \in Ports : Arrive(p)
    \/ SigHandler
    \/ \E p \in Ports : ReadCom(p) \/ AvailCom(p) \/ OpenCom(p) \/ SendLine(p)
    \/ ReadSignalled \/ ResetSignal \/ ReadAgain \/ GiveChar
    \/ Poll
    \/ OpenFails \/ OpenDevice \/ InstallHandler \/ SetAsync \/ Flush \/ SetAttributes
    \/ CloseCom
    \/ WriteChar \/ LineSent

Spec == Init /\ [][Next]_vars

-----------------------------------------------------------------------------
(* Types and bounds. *)
LinuxTypeOK ==
    /\ open \subseteq attached /\ attached \subseteq Ports /\ async \subseteq attached
    /\ used \in 0..FDS
    /\ handler \in Ports \cup {0}
    /\ sigio \in 0..1
    /\ driver \in [Ports -> Seq(Bytes)] /\ \A p \in Ports : Len(driver[p]) <= QUEUE
    /\ waitflag \in [Ports -> 0..1]
    /\ datavail \in [Ports -> -1..1]
    /\ buf \in [Ports -> Bytes] /\ taken \in [Ports -> Bytes]
    /\ tio \in [Ports -> SUBSET Int] /\ oldtio \in [Ports -> SUBSET Int]
    /\ newtio \in [Ports -> SUBSET Nat]
    /\ asked \in [Ports -> Rates]
    /\ pc \in {"idle", "read", "reset", "again", "give", "poll", "open", "install", "async",
               "flush", "set", "write"}
    /\ port \in Ports
    /\ out \in Seq(Bytes) /\ left \in Seq(Bytes)
    /\ answer \in {"none", "yes", "no"}
    /\ waited \in 0..1

Sound == Ports \ Failing

Input == INSTANCE SerialInput WITH
    Ports <- Sound,
    CAPACITY <- QUEUE + 1,
    LATE <- {},
    NEIGHBOURS <- {},
    inuse <- Sound \cap InUse,
    pending <- [p \in Sound |-> Pending(p)],
    taken <- [p \in Sound |-> taken[p]]

(* "COM1 thru COM4 are supported simultaneously" (gftiolin.c:73-74): with  *)
(* one signal handler for all of them, signals merged or handled late, and *)
(* another port failing, a port gives each character that came in once and *)
(* in order, in the driver's queue or read ahead.                          *)
ImplementsInput == Input!InputSpec

(* A character that waits leaves its port into the program's hands, or     *)
(* with the port's close, or, one of them, when a port that is open is     *)
(* opened again.  No other call, of this port or another, loses one: what  *)
(* is read ahead is never read over.                                       *)
LostOnlyByReopening ==
    [][\A p \in Sound : Len(Pending(p))' < Len(Pending(p)) =>
          \/ pc = "give" /\ port = p /\ taken'[p] = Head(Pending(p))
          \/ p \notin open'
          \/ /\ p \in REOPENED /\ pc = "idle" /\ pc' = "idle" /\ port' = p
             /\ answer' = "none" /\ Pending(p)' = Tail(Pending(p))]_vars

(* avail_com never says no while a character waits that was there when it  *)
(* was called: not every character has a signal of its own ("you might     *)
(* skip multiple characters", gftiolin.c:947-949).                         *)
AvailSeesWaiting == answer = "no" => waited = 0

(* SIGIO never meets its default action, which ends the program: "install  *)
(* the signal handler before making the device asynchronous"               *)
(* (gftiolin.c:703), also for a port that is closed and still raises it.   *)
NotKilledBySignal == sigio = 1 => handler \in Ports

(* A port that is not open has the settings the program found, after any   *)
(* sequence of opens, refused opens and closes.                            *)
SettingsRestored == \A p \in Ports : p \notin open => tio[p] = Original

(* A line goes out with every character once and in order, however often   *)
(* the port is busy ("caused characters to drop out", gftiolin.c:898-903). *)
LinesGoOutWhole == [][pc = "write" => out' \o left' = out \o left]_vars

(* "prepare valid baudrates" (gftiolin.c:613): an open port runs at the    *)
(* rate it was opened with.                                                *)
RateAsAsked ==
    pc = "idle" => \A p \in open : tio[p] = RateBits[asked[p]]
=============================================================================
