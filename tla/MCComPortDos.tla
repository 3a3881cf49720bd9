---------------------------- MODULE MCComPortDos ----------------------------
(* A view of ComPortDos for TLC. *)
EXTENDS ComPortDos

(* What the program's further steps depend on: port is set before it is    *)
(* read at idle, and after and left before they are during a read.         *)
Standing ==
    CASE pc = "idle" -> <<pc>>
      [] pc \in {"take", "load", "test", "reset"} -> <<pc, port>>
      [] OTHER -> programVars

(* The state without the cells of a ring that hold no waiting character    *)
(* and without triggered and readchar, which no step reads.  Such a cell   *)
(* is stored to before it is read: TakeChar reads the first cell of        *)
(* Waiting, a ring that filled up and looks empty is filled afresh, and a  *)
(* program that is ending reads no ring.  Two states with the same view    *)
(* therefore take the same steps, which change readchar in the same way.   *)
Seen ==
    <<IF after = "exit" THEN {} ELSE {<<head, tail, [p \in Ports |-> Waiting(p)]>>},
      portVars, Standing>>
=============================================================================
