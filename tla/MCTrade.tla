------------------------------ MODULE MCTrade -------------------------------
(***************************************************************************)
(* Small games for TLC.  Money is counted in units of the cheapest price,  *)
(* and the seeded offer and request have one tag.                          *)
(***************************************************************************)
EXTENDS Trade, TLC

CONSTANTS a, b      \* two tags

LastDoc == CHOOSE d \in DocId : \A e \in DocId : e <= d

\* A seeded offer whose doc_id the spawner does not reach.
SeedDocsHigh == << [doc_id |-> LastDoc, tags |-> {a}, base_price |-> 1] >>

\* A seeded offer whose doc_id is one the spawner gives out, as 47 is after 47
\* spawns of five seconds.
SeedDocsLow == << [doc_id |-> 1, tags |-> {a}, base_price |-> 1] >>

SeedNpcsOne == << [npc_id |-> 2, required_tags |-> {a}, bounty |-> 1] >>

SeedNpcsNone == <<>>

\* Players are interchangeable at the start and in every action.
Symmetry == Permutations(User)
=============================================================================
