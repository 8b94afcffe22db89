----------------------------- MODULE MCBaseBus -----------------------------
(* BaseBus with the main loop and one shell, one output and one channel    *)
(* with a number of its own, and small limits: requests are skipped from   *)
(* the third failure on, error_count wraps at 6, and the second look at a  *)
(* busy bus resets it.                                                     *)
EXTENDS BaseBus
=============================================================================
