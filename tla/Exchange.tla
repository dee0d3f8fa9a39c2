------------------------------ MODULE Exchange ------------------------------
(***************************************************************************)
(* What trading promises the players, with no threads and no files: a      *)
(* document is on offer, or on its way to a buyer, or in one player's      *)
(* hands, or gone; buying takes the money at once, for the price shown,    *)
(* from a player who can pay and has room, and either the document comes   *)
(* or the money goes back; selling pays the bounty of a request once, for  *)
(* documents whose tags cover it.  TradeHistory implements it.             *)
(*                                                                         *)
(* Frozen tags are not traded: what has one is neither bought nor sold nor *)
(* put on offer.  A purchase keeps to the letter of that.  A sale, or a    *)
(* new offer, keeps to what was frozen when it was begun: it is stopped by *)
(* every tag that has been frozen ever since.                              *)
(*                                                                         *)
(* A raid takes a player's money and documents, and nothing is promised    *)
(* about what that player has afterwards; the others and the board are to  *)
(* notice nothing of it.                                                   *)
(***************************************************************************)
EXTENDS Integers, FiniteSets, Functions

CONSTANTS Player, Dealer, Doc, Req, Mark, Cost, Reward, Room, Bust

VARIABLES
    shown,      \* document on offer -> its tags and price
    wanted,     \* open request -> its tags and bounty
    frozen,     \* the tags not to be traded
    barred,     \* who is selling, or the dealer -> tags frozen ever since that began
    due,        \* player -> document bought and yet to come -> its tags and price
    purse,      \* player who was not raided -> money, or Bust
    holds       \* the same -> document in hand -> its tags

goods == <<shown, wanted, frozen, due, purse, holds>>
xvars == <<goods, barred>>

Remove(f, S) == Restrict(f, DOMAIN f \ S)
Insert(f, x, y) == [z \in DOMAIN f \cup {x} |-> IF z = x THEN y ELSE f[z]]

Gets(u, money) ==
    purse' = [v \in DOMAIN purse |-> IF v = u THEN purse[v] + money ELSE purse[v]]
GivenOut(d) ==
    (\E u \in DOMAIN holds : d \in DOMAIN holds[u]) \/ \E u \in Player : d \in DOMAIN due[u]

Offer(d, tags, price) ==
    /\ d \notin DOMAIN shown /\ ~ GivenOut(d)
    /\ Dealer \in DOMAIN barred /\ tags \cap barred[Dealer] = {}
    /\ Dealer \notin DOMAIN barred'
    /\ shown' = Insert(shown, d, [tags |-> tags, price |-> price])
    /\ UNCHANGED <<wanted, frozen, due, purse, holds>>

Expire(S) ==
    /\ \A d \in S : d \in DOMAIN shown /\ shown[d].tags \cap frozen = {}
    /\ shown' = Remove(shown, S)
    /\ UNCHANGED <<wanted, frozen, due, purse, holds>>

Ask(n, tags, reward) ==
    /\ n \notin DOMAIN wanted
    /\ wanted' = Insert(wanted, n, [tags |-> tags, bounty |-> reward])
    /\ UNCHANGED <<shown, frozen, due, purse, holds>>

Lapse(S) ==
    /\ wanted' = Remove(wanted, S)
    /\ UNCHANGED <<shown, frozen, due, purse, holds>>

SetFrozen(T) ==
    /\ frozen' = T
    /\ UNCHANGED <<shown, wanted, due, purse, holds>>

Buy(u, d) ==
    /\ d \in DOMAIN shown
    /\ shown[d].tags \cap frozen = {}
    /\ DOMAIN due[u] = {}
    /\ u \in DOMAIN purse =>
          purse[u] >= shown[d].price /\ Cardinality(DOMAIN holds[u]) < Room
    /\ shown' = Remove(shown, {d})
    /\ due' = [due EXCEPT ![u] = Insert(@, d, shown[d])]
    /\ Gets(u, - shown[d].price)
    /\ UNCHANGED <<wanted, frozen, holds>>

Deliver(u, d) ==
    /\ d \in DOMAIN due[u]
    /\ due' = [due EXCEPT ![u] = Remove(@, {d})]
    /\ holds' = [v \in DOMAIN holds |->
                    IF v = u THEN Insert(holds[v], d, due[v][d].tags) ELSE holds[v]]
    /\ UNCHANGED <<shown, wanted, frozen, purse>>

\* What cannot be delivered is paid back, and on offer again as it was, or gone.
Refund(u, d) ==
    /\ d \in DOMAIN due[u]
    /\ due' = [due EXCEPT ![u] = Remove(@, {d})]
    /\ \/ d \notin DOMAIN shown /\ shown' = Insert(shown, d, due[u][d])
       \/ UNCHANGED shown
    /\ Gets(u, due[u][d].price)
    /\ UNCHANGED <<wanted, frozen, holds>>

Sell(u, n, D) ==
    /\ n \in DOMAIN wanted
    /\ u \in DOMAIN holds /\ D # {} /\ D \subseteq DOMAIN holds[u]
    /\ wanted[n].tags \subseteq UNION {holds[u][d] : d \in D}
    /\ u \in DOMAIN barred /\ \A d \in D : holds[u][d] \cap barred[u] = {}
    /\ u \notin DOMAIN barred'
    /\ wanted' = Remove(wanted, {n})
    /\ holds' = [holds EXCEPT ![u] = Remove(@, D)]
    /\ Gets(u, wanted[n].bounty)
    /\ UNCHANGED <<shown, frozen, due>>

Discard(u, d) ==
    /\ u \in DOMAIN holds /\ d \in DOMAIN holds[u]
    /\ holds' = [holds EXCEPT ![u] = Remove(@, {d})]
    /\ UNCHANGED <<shown, wanted, frozen, due, purse>>

\* Only a player with neither money nor documents.
GoBust(u) ==
    /\ u \in DOMAIN purse /\ purse[u] = 0
    /\ DOMAIN holds[u] = {} /\ DOMAIN due[u] = {}
    /\ purse' = [purse EXCEPT ![u] = Bust]
    /\ UNCHANGED <<shown, wanted, frozen, due, holds>>

Raid(u) ==
    /\ purse' = Remove(purse, {u})
    /\ holds' = Remove(holds, {u})
    /\ UNCHANGED <<shown, wanted, frozen, due>>

Deal ==
    \/ \E d \in Doc, T \in SUBSET Mark, c \in Cost : Offer(d, T, c)
    \/ \E S \in SUBSET DOMAIN shown : Expire(S)
    \/ \E n \in Req, T \in SUBSET Mark, b \in Reward : Ask(n, T, b)
    \/ \E S \in SUBSET DOMAIN wanted : Lapse(S)
    \/ \E T \in SUBSET Mark : SetFrozen(T)
    \/ \E u \in Player :
          \/ \E d \in Doc :
                Buy(u, d) \/ Deliver(u, d) \/ Refund(u, d) \/ Discard(u, d)
          \/ \E n \in DOMAIN wanted, D \in SUBSET Doc : Sell(u, n, D)
          \/ GoBust(u) \/ Raid(u)

\* With any step sales and offers may be begun or given up.
Bars ==
    barred' = [p \in DOMAIN barred' |->
                  IF p \in DOMAIN barred THEN barred[p] \cap frozen' ELSE frozen']

Next == [Deal]_goods /\ Bars

\* Play starts with a board, equal purses and empty hands.
Start(money) ==
    /\ frozen = {} /\ DOMAIN barred = {}
    /\ purse = [u \in Player |-> money]
    /\ DOMAIN holds = Player /\ \A u \in Player : DOMAIN holds[u] = {}
    /\ \A u \in Player : DOMAIN due[u] = {}

StepsOnly == [][Next]_xvars
=============================================================================
