---------------------------- MODULE MCDiPostWork ----------------------------
(* DiPostWork with four inputs and two trip slots.  As on the board, the   *)
(* trip inputs (2 and 3 here, 6..9 there) are not the inputs numbered like *)
(* the slots (0 and 1 here, 0..3 there).                                   *)
EXTENDS DiPostWork

TripInputs == [i \in Trips |-> i + 2]
=============================================================================
