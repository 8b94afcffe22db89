---------------------------- MODULE MCDiDebounce ----------------------------
(* DiDebounce for TLC, with the firmware's own thresholds (bsp.h) and one  *)
(* channel: the sixteen channels share no state, and the theorems of       *)
(* DiDebounceProofs hold for any set of channels and any thresholds.       *)
EXTENDS DiDebounce
=============================================================================
