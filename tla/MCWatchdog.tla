----------------------------- MODULE MCWatchdog -----------------------------
(***************************************************************************)
(* Three servers, one after the other: two restarts after crashes.         *)
(***************************************************************************)
EXTENDS Watchdog
=============================================================================
