------------------------------- MODULE Bazaar -------------------------------
(***************************************************************************)
(* What the board promises its callers, with no slot order and no cached   *)
(* flag: an offer may leave the board only while none of its tags is       *)
(* frozen, and is never changed while it is there.  Market implements it.  *)
(***************************************************************************)
EXTENDS Functions

CONSTANTS Place, Stall, Tag, Offer, Request

VARIABLES
    offers,     \* place -> the offer shown there
    requests,   \* stall -> the request posted there
    frozen      \* the tags that must not be traded

bvars == <<offers, requests, frozen>>

Tradable == {p \in DOMAIN offers : offers[p].tags \cap frozen = {}}

Init ==
    /\ offers = [p \in {} |-> {}]
    /\ requests = [s \in {} |-> {}]
    /\ frozen = {}

Show(p, o) ==
    /\ p \notin DOMAIN offers
    /\ offers' = [q \in DOMAIN offers \cup {p} |-> IF q = p THEN o ELSE offers[q]]
    /\ UNCHANGED <<requests, frozen>>

\* Sold, or gone to anonymous buyers.
Leave(S) ==
    /\ S \subseteq Tradable
    /\ offers' = Restrict(offers, DOMAIN offers \ S)
    /\ UNCHANGED <<requests, frozen>>

Post(s, r) ==
    /\ s \notin DOMAIN requests
    /\ requests' = [t \in DOMAIN requests \cup {s} |-> IF t = s THEN r ELSE requests[t]]
    /\ UNCHANGED <<offers, frozen>>

\* Answered, given up, or wiped with the round.
Withdraw(S) ==
    /\ requests' = Restrict(requests, DOMAIN requests \ S)
    /\ UNCHANGED <<offers, frozen>>

SetFrozen(T) ==
    /\ frozen' = T
    /\ UNCHANGED <<offers, requests>>

\* The end of a round lifts every freeze with the offers it held back.
Wipe ==
    /\ offers' = [p \in {} |-> {}]
    /\ frozen' = {}
    /\ UNCHANGED requests

Next ==
    \/ \E p \in Place, o \in Offer : Show(p, o)
    \/ \E S \in SUBSET Place : Leave(S)
    \/ \E s \in Stall, r \in Request : Post(s, r)
    \/ \E S \in SUBSET Stall : Withdraw(S)
    \/ \E T \in SUBSET Tag : SetFrozen(T)
    \/ Wipe

Spec == Init /\ [][Next]_bvars
=============================================================================
