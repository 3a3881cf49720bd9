-------------------------- MODULE MCProcessScript --------------------------
(* Small flights for ProcessScript, in seconds from the start of the year. *)
EXTENDS ProcessScript

(* An empty segment, two that start inside dropouts, one that starts       *)
(* between two draws, and one that goes back in time, as the second of     *)
(* date_time[] does (gpssim.c:1884).                                       *)
BackAndForth == <<1, 4, 4, 7, 5, 10, 14>>
=============================================================================
