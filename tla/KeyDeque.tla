------------------------------ MODULE KeyDeque ------------------------------
(***************************************************************************)
(* What the keyboard buffer of xwinlite promises: a double-ended queue of  *)
(* at most CAPACITY codes.  What is added to a full queue is lost; the     *)
(* request to quit goes in front of everything, and it is the newest code  *)
(* that makes room for it.                                                 *)
(***************************************************************************)
EXTENDS Naturals, Sequences

CONSTANTS CAPACITY, Codes, QUIT

VARIABLES queue, taken   \* taken: the codes the last getch took

dequeVars == <<queue, taken>>

DequeInit == queue = <<>> /\ taken = <<>>

FirstOf(s, n) == SubSeq(s, 1, IF Len(s) < n THEN Len(s) ELSE n)

AddCodes ==
    /\ \E code \in Codes : queue' = FirstOf(Append(queue, code), CAPACITY)
    /\ UNCHANGED taken

PutQuitFirst ==
    /\ queue' = <<QUIT>> \o FirstOf(queue, CAPACITY - 1)
    /\ UNCHANGED taken

Take(n) ==
    /\ n <= Len(queue)
    /\ taken' = SubSeq(queue, 1, n)
    /\ queue' = SubSeq(queue, n + 1, Len(queue))

DequeNext == AddCodes \/ PutQuitFirst \/ Take(1) \/ Take(2)

DequeSpec == DequeInit /\ [][DequeNext]_dequeVars
=============================================================================
