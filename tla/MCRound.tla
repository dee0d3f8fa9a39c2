------------------------------ MODULE MCRound -------------------------------
(***************************************************************************)
(* Two players.  One escape takes the goal to the cap and the next ends    *)
(* the round, as the second and the third do in the game; one more may     *)
(* come during the countdown.                                              *)
(***************************************************************************)
EXTENDS Round

CONSTANTS k1, k2
=============================================================================
