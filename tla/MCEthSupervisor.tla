--------------------------- MODULE MCEthSupervisor ---------------------------
(* The supervision on a day of two hours of two minutes each.  The times   *)
(* allowed are a minute, so that both counters go over theirs.             *)
EXTENDS NetInterface
=============================================================================
