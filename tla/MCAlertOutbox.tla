--------------------------- MODULE MCAlertOutbox ---------------------------
(***************************************************************************)
(* AlertOutbox for TLC.  All constants are numbers, strings and sets, so   *)
(* MCAlertOutbox.cfg gives them values directly: two messages on one       *)
(* dedupe key, with retries, escalation, acknowledgment, a crash and a     *)
(* policy change.                                                          *)
(***************************************************************************)
EXTENDS AlertOutbox

=============================================================================
