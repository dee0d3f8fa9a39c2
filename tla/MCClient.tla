------------------------------ MODULE MCClient ------------------------------
(***************************************************************************)
(* A board for two offers and one request, of three and one that are to    *)
(* come, a tag that two of the offers have, and three things that happen   *)
(* on the server.                                                          *)
(***************************************************************************)
EXTENDS Client

CONSTANT t1

MCTagsOf == [i \in Item |-> IF i \in {1, 2} THEN {t1} ELSE {}]
MCUI_MAX == [mkt |-> 2, npc |-> 1]
=============================================================================
