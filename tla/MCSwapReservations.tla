------------------------ MODULE MCSwapReservations -------------------------
(* Quotes on one or two receive indexes.                                   *)
EXTENDS SwapReservations

MCSkews == {2}
=============================================================================
