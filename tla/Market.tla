------------------------------- MODULE Market -------------------------------
(***************************************************************************)
(* The board of the black market (src/src/server/market.c): the offers,    *)
(* the buyers' requests ("NPCs") and the mask of frozen tags.              *)
(*                                                                         *)
(* Each function of market.c is one critical section of g_market_mutex or  *)
(* of g_npc_mutex, hence one action here; market_init, which takes the two *)
(* locks one after the other, is two.  An array of slots with an "active"  *)
(* flag is a function whose DOMAIN is the set of active slots.  A bit mask *)
(* is a set of tags.  Ages are abstracted: which unfrozen offers and which *)
(* requests have outlived their span at a sweep is chosen freely.          *)
(***************************************************************************)
EXTENDS Integers, Functions

CONSTANTS
    DocId,              \* the doc_id values in use
    NpcId,              \* the npc_id values in use
    Tag,                \* the bits of a tag mask
    Price,              \* the base_price values in use
    Bounty,             \* the bounty values in use
    MAX_MARKET_SLOTS,   \* 32 in market.h
    MAX_NPC_SLOTS       \* 16 in market.h

ASSUME SlotsAssumption ==
    /\ MAX_MARKET_SLOTS \in Nat \ {0}
    /\ MAX_NPC_SLOTS \in Nat \ {0}

VARIABLES
    g_market,           \* slot index -> MarketSlot, for the active slots
    g_npc,              \* slot index -> NPCSlot, for the active slots
    g_frozen_tags       \* the mask of frozen tags

vars == <<g_market, g_npc, g_frozen_tags>>

-----------------------------------------------------------------------------
\* Types.

MarketIndex == 0 .. (MAX_MARKET_SLOTS - 1)
NpcIndex    == 0 .. (MAX_NPC_SLOTS - 1)
TagMask     == (SUBSET Tag) \ {{}}

MarketSlot == [doc_id : DocId, tags : SUBSET Tag, base_price : Price,
               is_frozen : BOOLEAN]
NPCSlot    == [npc_id : NpcId, required_tags : SUBSET Tag, bounty : Bounty]

\* A table of slots: only the active ones are in its domain.
Table(Index, Slot) == UNION {[S -> Slot] : S \in SUBSET Index}

-----------------------------------------------------------------------------
\* Helpers on tables of slots.

Overlap(S, T) == S \cap T # {}

\* Mutant: the scan runs one slot past the end of the array.
FirstFree_overrun(table, n) ==
    {i \in (0 .. n) \ DOMAIN table : \A j \in 0 .. (i - 1) : j \in DOMAIN table}

\* The slot a first-fit scan of the indices 0 .. n-1 stops at (none if full).
FirstFree(table, n) ==
    {i \in (0 .. (n - 1)) \ DOMAIN table : \A j \in 0 .. (i - 1) : j \in DOMAIN table}

\* The slot a scan for a member of S stops at (none if S is empty).
FirstOf(S) == {i \in S : \A j \in S : i <= j}

Fill(table, i, slot) ==
    [j \in DOMAIN table \cup {i} |-> IF j = i THEN slot ELSE table[j]]

Vacate(table, S) == Restrict(table, DOMAIN table \ S)

-----------------------------------------------------------------------------
\* The functions of market.c that read.

SlotsOf(doc_id) == {i \in DOMAIN g_market : g_market[i].doc_id = doc_id}
NpcSlotsOf(npc_id) == {i \in DOMAIN g_npc : g_npc[i].npc_id = npc_id}

market_find(doc_id) == FirstOf(SlotsOf(doc_id))
npc_find(npc_id)    == FirstOf(NpcSlotsOf(npc_id))

market_is_full == MarketIndex \subseteq DOMAIN g_market
npc_is_full    == NpcIndex \subseteq DOMAIN g_npc

is_tag_frozen(tags) == Overlap(tags, g_frozen_tags)

market_active_tags == UNION {g_market[i].tags : i \in DOMAIN g_market}

-----------------------------------------------------------------------------
\* The functions of market.c that write.

Init ==
    /\ g_market = [i \in {} |-> {}]
    /\ g_npc = [i \in {} |-> {}]
    /\ g_frozen_tags = {}

\* market_init, first critical section.
market_init_board ==
    /\ g_market' = [i \in {} |-> {}]
    /\ g_frozen_tags' = {}
    /\ UNCHANGED g_npc

\* market_init, second critical section.
market_init_npc ==
    /\ g_npc' = [i \in {} |-> {}]
    /\ UNCHANGED <<g_market, g_frozen_tags>>

\* Mutant: an offer is always listed as tradable.
market_add_ignores_mask(doc_id, tags, price) ==
    /\ \E i \in FirstFree(g_market, MAX_MARKET_SLOTS) :
          g_market' = Fill(g_market, i,
                           [doc_id |-> doc_id, tags |-> tags, base_price |-> price,
                            is_frozen |-> FALSE])
    /\ UNCHANGED <<g_npc, g_frozen_tags>>

\* Succeeds in the first free slot; returns -1, changing nothing, when full.
market_add(doc_id, tags, price) ==
    /\ \E i \in FirstFree(g_market, MAX_MARKET_SLOTS) :
          g_market' = Fill(g_market, i,
                           [doc_id |-> doc_id, tags |-> tags, base_price |-> price,
                            is_frozen |-> is_tag_frozen(tags)])
    /\ UNCHANGED <<g_npc, g_frozen_tags>>

\* Mutant: the frozen flag is not looked at when an offer is taken.
market_take_any(doc_id) ==
    /\ \E i \in market_find(doc_id) : g_market' = Vacate(g_market, {i})
    /\ UNCHANGED <<g_npc, g_frozen_tags>>

\* Mutant: the slot is copied out and stays active.
market_take_keeps(doc_id) ==
    /\ \E i \in market_find(doc_id) : ~ g_market[i].is_frozen
    /\ UNCHANGED <<g_market, g_npc, g_frozen_tags>>

\* The successful return; -1 (no such offer) and -2 (frozen) change nothing.
market_take(doc_id) ==
    /\ \E i \in market_find(doc_id) :
          /\ ~ g_market[i].is_frozen
          /\ g_market' = Vacate(g_market, {i})
    /\ UNCHANGED <<g_npc, g_frozen_tags>>

\* Anonymous buyers take the offers whose lifespan is over, never a frozen one.
market_despawn_aged(Aged) ==
    /\ Aged \subseteq {i \in DOMAIN g_market : ~ g_market[i].is_frozen}
    /\ g_market' = Vacate(g_market, Aged)
    /\ UNCHANGED <<g_npc, g_frozen_tags>>

npc_add(npc_id, required_tags, bounty) ==
    /\ \E i \in FirstFree(g_npc, MAX_NPC_SLOTS) :
          g_npc' = Fill(g_npc, i, [npc_id |-> npc_id, required_tags |-> required_tags,
                                   bounty |-> bounty])
    /\ UNCHANGED <<g_market, g_frozen_tags>>

npc_take(npc_id) ==
    /\ \E i \in npc_find(npc_id) : g_npc' = Vacate(g_npc, {i})
    /\ UNCHANGED <<g_market, g_frozen_tags>>

npc_despawn_aged(Aged) ==
    /\ Aged \subseteq DOMAIN g_npc
    /\ g_npc' = Vacate(g_npc, Aged)
    /\ UNCHANGED <<g_market, g_frozen_tags>>

freeze_tags(tags) ==
    /\ g_frozen_tags' = g_frozen_tags \cup tags
    /\ g_market' = [i \in DOMAIN g_market |->
                       [g_market[i] EXCEPT !.is_frozen =
                           @ \/ Overlap(g_market[i].tags, tags)]]
    /\ UNCHANGED g_npc

\* Mutant: an offer thaws although another of its tags is still frozen.
unfreeze_tags_eager(tags) ==
    /\ g_frozen_tags' = g_frozen_tags \ tags
    /\ g_market' = [i \in DOMAIN g_market |->
                       [g_market[i] EXCEPT !.is_frozen =
                           @ /\ ~ Overlap(g_market[i].tags, tags)]]
    /\ UNCHANGED g_npc

\* An offer thaws when none of its tags is frozen any more.
unfreeze_tags(tags) ==
    /\ g_frozen_tags' = g_frozen_tags \ tags
    /\ g_market' = [i \in DOMAIN g_market |->
                       [g_market[i] EXCEPT !.is_frozen =
                           @ /\ ~ (/\ Overlap(g_market[i].tags, tags)
                                   /\ ~ Overlap(g_market[i].tags, g_frozen_tags'))]]
    /\ UNCHANGED g_npc

-----------------------------------------------------------------------------
\* Any caller may call any function at any time.

Next ==
    \/ market_init_board
    \/ market_init_npc
    \/ \E d \in DocId, T \in TagMask, p \in Price : market_add(d, T, p)
    \/ \E d \in DocId : market_take(d)
    \/ \E A \in SUBSET MarketIndex : market_despawn_aged(A)
    \/ \E n \in NpcId, T \in TagMask, b \in Bounty : npc_add(n, T, b)
    \/ \E n \in NpcId : npc_take(n)
    \/ \E A \in SUBSET NpcIndex : npc_despawn_aged(A)
    \/ \E T \in TagMask : freeze_tags(T)
    \/ \E T \in TagMask : unfreeze_tags(T)

Spec == Init /\ [][Next]_vars

-----------------------------------------------------------------------------
\* Type invariant of the three shared variables of market.c.
TypeOK ==
    /\ g_market \in Table(MarketIndex, MarketSlot)
    /\ g_npc \in Table(NpcIndex, NPCSlot)
    /\ g_frozen_tags \subseteq Tag

\* The is_frozen flag cached in a slot says what the mask says of its tags,
\* however freezes, thaws, listings and a reset follow one another: market_take
\* and market_despawn_aged look only at the flag, the sale of a document only
\* at the mask (is_tag_frozen), and the two must agree.
FrozenFlagMatchesMask ==
    \A i \in DOMAIN g_market :
        g_market[i].is_frozen <=> Overlap(g_market[i].tags, g_frozen_tags)

\* The offer in slot i is still there, the same document at the same price.
Kept(i) ==
    /\ i \in DOMAIN g_market'
    /\ g_market'[i].doc_id = g_market[i].doc_id
    /\ g_market'[i].tags = g_market[i].tags
    /\ g_market'[i].base_price = g_market[i].base_price

BoardWiped == DOMAIN g_market' = {} /\ g_frozen_tags' = {}

FrozenOffersKept ==
    \A i \in DOMAIN g_market :
        Overlap(g_market[i].tags, g_frozen_tags) => BoardWiped \/ Kept(i)

\* An offer with a frozen tag is neither sold nor aged away: a step either keeps
\* it, with its document and price, or wipes the whole board (market_init).
\* It is stated with the mask; the code tests the cached flag.
FrozenOfferStays == [][FrozenOffersKept]_vars

-----------------------------------------------------------------------------
\* The board implements the abstract Bazaar: forget the slots' cached flags.

Shown(slot) == [doc_id |-> slot.doc_id, tags |-> slot.tags,
                base_price |-> slot.base_price]

B == INSTANCE Bazaar WITH
        Place    <- MarketIndex,
        Stall    <- NpcIndex,
        Offer    <- [doc_id : DocId, tags : SUBSET Tag, base_price : Price],
        Request  <- NPCSlot,
        offers   <- [i \in DOMAIN g_market |-> Shown(g_market[i])],
        requests <- g_npc,
        frozen   <- g_frozen_tags

\* Every call of market.c is a step of the Bazaar or changes nothing it shows:
\* the first-fit slots, the cached flags and the two locks are invisible.
ImplementsBazaar == B!Spec
=============================================================================
