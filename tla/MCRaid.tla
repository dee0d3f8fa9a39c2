------------------------------- MODULE MCRaid -------------------------------
(***************************************************************************)
(* Two players and two raids: enough for an answer that crosses the timer  *)
(* and for one that is applied to the list of the next raid.               *)
(***************************************************************************)
EXTENDS Raid

CONSTANTS k1, k2
=============================================================================
