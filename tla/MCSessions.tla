----------------------------- MODULE MCSessions -----------------------------
(***************************************************************************)
(* Two sockets, used again and again, for one key.                        *)
(***************************************************************************)
EXTENDS Sessions

CONSTANTS c1, c2, k1
=============================================================================
