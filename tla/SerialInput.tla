---------------------------- MODULE SerialInput ----------------------------
(***************************************************************************)
(* What the serial libraries promise a program that reads its ports: per   *)
(* port a queue of the characters received and not yet taken.  A port that *)
(* is in use - open, with no call that opens or closes it under way - is   *)
(* read in order and loses nothing, but in three ways: read too late, it   *)
(* loses the whole queue, and the character that came in last can take its *)
(* place; opened again, it can lose the next character to be taken; and    *)
(* the opening of another port can spoil one of its characters.  Of a port *)
(* that is not in use characters can be lost at any time.                  *)
(***************************************************************************)
EXTENDS Integers, Sequences

CONSTANTS
    Ports, Bytes,
    CAPACITY,   \* characters a queue can hold
    LATE,       \* the ports that may be read too late
    REOPENED,   \* the ports that may be opened again while they are open
    NEIGHBOURS  \* <<p, q>>: opening p can spoil a character of q

VARIABLES
    inuse,          \* the ports in use
    pending, taken  \* per port: the queue, and the last character taken

inputVars == <<inuse, pending, taken>>

InputInit ==
    /\ inuse = {}
    /\ pending = [p \in Ports |-> <<>>]
    /\ taken \in [Ports -> Bytes]

Receive(p) ==
    /\ Len(pending[p]) < CAPACITY
    /\ \E b \in Bytes : pending' = [pending EXCEPT ![p] = Append(@, b)]
    /\ UNCHANGED <<inuse, taken>>

(* No room, or just not enough. *)
Overrun(p) ==
    /\ p \in LATE \/ p \notin inuse
    /\ Len(pending[p]) >= CAPACITY - 1
    /\ \E queue \in {<<>>} \cup {<<b>> : b \in Bytes} :
           pending' = [pending EXCEPT ![p] = queue]
    /\ UNCHANGED <<inuse, taken>>

Take(p) ==
    /\ p \in inuse
    /\ pending[p] # <<>>
    /\ taken' = [taken EXCEPT ![p] = Head(pending[p])]
    /\ pending' = [pending EXCEPT ![p] = Tail(@)]
    /\ UNCHANGED inuse

Drop(p) ==
    /\ p \in REOPENED
    /\ pending[p] # <<>>
    /\ pending' = [pending EXCEPT ![p] = Tail(@)]
    /\ UNCHANGED <<inuse, taken>>

Open(p) ==
    /\ inuse' = inuse \cup {p}
    /\ \/ UNCHANGED pending
       \/ \E q \in Ports : \E i \in DOMAIN pending[q], b \in Bytes :
             /\ <<p, q>> \in NEIGHBOURS
             /\ pending' = [pending EXCEPT ![q] = [@ EXCEPT ![i] = b]]
    /\ UNCHANGED taken

(* Some ports go out of use, all of them when the program ends, and some   *)
(* of those that are not in use lose their queue.                          *)
Release ==
    /\ inuse' \in SUBSET inuse
    /\ \E gone \in SUBSET (Ports \ inuse') :
           pending' = [p \in Ports |-> IF p \in gone THEN <<>> ELSE pending[p]]
    /\ UNCHANGED taken

InputNext ==
    \/ \E p \in Ports : Receive(p) \/ Overrun(p) \/ Take(p) \/ Drop(p) \/ Open(p)
    \/ Release

InputSpec == InputInit /\ [][InputNext]_inputVars
=============================================================================
