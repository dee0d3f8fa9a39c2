------------------------------ MODULE MCReset -------------------------------
(***************************************************************************)
(* A player's handler, the event thread, two resets and two leaks with     *)
(* their timers, over one seeded offer and one that is spawned.            *)
(***************************************************************************)
EXTENDS Reset

CONSTANTS a, u1

\* The seed has an id that the spawner does not reach: trade_ids is about the others.
SeedDocsHigh == << [doc_id |-> 2, tags |-> {a}, base_price |-> 1] >>
SeedNpcsOne == << [npc_id |-> 1, required_tags |-> {a}, bounty |-> 1] >>
=============================================================================
