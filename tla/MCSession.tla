----------------------------- MODULE MCSession -----------------------------
(* A flight for Session, shorter than the one of MCProcessScript: an empty *)
(* segment, one that ends and one that starts in a dropout, one that goes  *)
(* back in time, and one that sends some of its seconds again, starts      *)
(* between two draws and ends at the next dropout.                         *)
EXTENDS Session

ShortFlight == <<1, 4, 4, 7, 6, 9>>
=============================================================================
