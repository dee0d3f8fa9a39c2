---------------------------- MODULE TradeProofs -----------------------------
(***************************************************************************)
(* For any number of players, documents, slots, faults and raids: the      *)
(* types, that a file is forgotten only where handle_buy drops its         *)
(* rollback, and, as long as the spawner's ids have not run into those of  *)
(* the seeds, that every document is in one place, that every offer has    *)
(* its file, and that a burned player is left without documents.  Raids    *)
(* and failing renames included, all of it behaves like atomic purchases   *)
(* and sales: TradeHistory implements Exchange.                            *)
(***************************************************************************)
EXTENDS TradeHistory, MarketProofs, FiniteSetTheorems, SequenceTheorems

-----------------------------------------------------------------------------
\* The invariants.

Passing == {"buy_move", "buy_undo"}

\* A buyer's thread has taken an offer off the board and not moved its file yet.
Passes(u) == th[u].pc \in Passing

\* OneCustodian for one document, without counting.
Sole(d) ==
    /\ \A i, j \in SlotsOf(d) : i = j
    /\ \A u, v \in User : InPassage(u, d) /\ InPassage(v, d) => u = v
    /\ \A u, v \in User : sandbox_has(u, d) /\ sandbox_has(v, d) => u = v
    /\ SlotsOf(d) # {} => /\ ~ WithSpawner(d)
                          /\ \A u \in User : ~ InPassage(u, d) /\ ~ sandbox_has(u, d)
    /\ \A u, v \in User : InPassage(u, d) => ~ WithSpawner(d) /\ ~ sandbox_has(v, d)
    /\ WithSpawner(d) => \A u \in User : ~ sandbox_has(u, d)

\* An id that the spawner has still to give out is in nobody's hands.
Fresh(d) ==
    d \in (g_doc_id_counter + 1) .. SPAWN_LIMIT =>
        /\ SlotsOf(d) = {} /\ ~ WithSpawner(d)
        /\ \A u \in User : ~ InPassage(u, d) /\ ~ sandbox_has(u, d)

Backed(d, tags) == d \in DOMAIN master /\ master[d] = tags

\* d is on offer, bought and not moved yet, or about to be listed, with these tags.
Shows(d, tags) ==
    \/ \E i \in SlotsOf(d) : g_market[i].tags = tags
    \/ \E u \in User : InPassage(u, d) /\ th[u].slot.tags = tags
    \/ ev.pc = "spawn_add" /\ ev.doc_id = d /\ ev.tags = tags

\* OfferBacked for one document, and for what may be listed as well: a purchase that
\* may be rolled back and a document the spawner has written.
DocBacked(d) == \A tags \in SUBSET Tag : Shows(d, tags) => Backed(d, tags)

CustodyInv == \A d \in DocId : Sole(d) /\ Fresh(d) /\ DocBacked(d)

\* The ids of the seeds are apart from one another and from those the spawner gives
\* out.  Under src/ they are 47, 70, 111 and 124: so it is for the first 46 spawns.
SeedsApart ==
    /\ \A i, j \in DOMAIN SeedDocs : SeedDocs[i].doc_id = SeedDocs[j].doc_id => i = j
    /\ \A i \in DOMAIN SeedDocs : SeedDocs[i].doc_id \notin 1 .. SPAWN_LIMIT

-----------------------------------------------------------------------------
\* What the calls of market.c do to the board, as far as documents are concerned.

SameOffer(i) ==
    /\ g_market'[i].doc_id = g_market[i].doc_id
    /\ g_market'[i].tags = g_market[i].tags
    /\ g_market'[i].base_price = g_market[i].base_price

BoardSame ==
    /\ DOMAIN g_market' = DOMAIN g_market
    /\ \A i \in DOMAIN g_market : SameOffer(i)

BoardLess(S) ==
    /\ DOMAIN g_market' = DOMAIN g_market \ S
    /\ \A i \in DOMAIN g_market' : SameOffer(i)

BoardMore(d, tags, p) ==
    \E i : /\ i \notin DOMAIN g_market
           /\ DOMAIN g_market' = DOMAIN g_market \cup {i}
           /\ \A j \in DOMAIN g_market : SameOffer(j)
           /\ g_market'[i].doc_id = d /\ g_market'[i].tags = tags
           /\ g_market'[i].base_price = p

\* Slots are found by number, so a scan stops at one slot.
LEMMA FirstUnique ==
    ASSUME NEW S \in SUBSET Int, NEW i \in FirstOf(S), NEW j \in FirstOf(S)
    PROVE  i = j
<1>1. i \in Int /\ j \in Int /\ i <= j /\ j <= i
  BY DEF FirstOf
<1>2. QED
  BY <1>1

LEMMA AddEffect ==
    ASSUME TypeOK, NEW d \in DocId, NEW T \in SUBSET Tag, NEW p \in Price,
           market_add(d, T, p)
    PROVE  TypeOK' /\ BoardMore(d, T, p)
<1> DEFINE slot == [doc_id |-> d, tags |-> T, base_price |-> p,
                    is_frozen |-> is_tag_frozen(T)]
<1>1. PICK i \in FirstFree(g_market, MAX_MARKET_SLOTS) : g_market' = Fill(g_market, i, slot)
  BY DEF market_add
<1>2. i \in MarketIndex /\ i \notin DOMAIN g_market
  BY FirstFreeInRange DEF MarketIndex
<1>3. slot \in MarketSlot
  BY DEF MarketSlot, is_tag_frozen, Overlap
<1>4. TypeOK'
  BY <1>1, <1>2, <1>3, FillType DEF TypeOK, market_add
<1>5. slot.doc_id = d /\ slot.tags = T /\ slot.base_price = p
  OBVIOUS
<1> HIDE DEF slot
<1>6. /\ DOMAIN g_market' = DOMAIN g_market \cup {i} /\ g_market'[i] = slot
      /\ \A j \in DOMAIN g_market : g_market'[j] = g_market[j]
  BY <1>1, <1>2 DEF Fill
<1>7. BoardMore(d, T, p)
  BY <1>2, <1>5, <1>6 DEF BoardMore, SameOffer
<1>8. QED
  BY <1>4, <1>7

LEMMA VacateEffect ==
    ASSUME TypeOK, NEW S, g_market' = Vacate(g_market, S), UNCHANGED <<g_npc, g_frozen_tags>>
    PROVE  TypeOK' /\ BoardLess(S)
<1>1. g_market' \in Table(MarketIndex, MarketSlot)
  BY VacateType DEF TypeOK
<1>2. BoardLess(S)
  <2>1. /\ DOMAIN g_market' = DOMAIN g_market \ S
        /\ \A i \in DOMAIN g_market' : g_market'[i] = g_market[i]
    BY VacateStep
  <2>2. QED
    BY <2>1 DEF BoardLess, SameOffer
<1>3. QED
  BY <1>1, <1>2 DEF TypeOK

LEMMA TakeEffect ==
    ASSUME TypeOK, NEW d, NEW i \in market_find(d), market_take(d)
    PROVE  /\ TypeOK' /\ BoardLess({i})
           /\ i \in DOMAIN g_market /\ g_market[i].doc_id = d
           /\ ~ g_market[i].is_frozen
<1>1. PICK j \in market_find(d) : ~ g_market[j].is_frozen /\ g_market' = Vacate(g_market, {j})
  BY DEF market_take
<1>2. SlotsOf(d) \subseteq Int
  <2>1. DOMAIN g_market \subseteq MarketIndex
    BY TableElim DEF TypeOK
  <2>2. MarketIndex \subseteq Int
    BY SlotsAssumption DEF MarketIndex
  <2>3. QED
    BY <2>1, <2>2 DEF SlotsOf
<1>3. i = j
  BY <1>2, FirstUnique DEF market_find
<1>4. i \in DOMAIN g_market /\ g_market[i].doc_id = d
  BY DEF market_find, FirstOf, SlotsOf
<1>5. QED
  BY <1>1, <1>3, <1>4, VacateEffect DEF market_take

\* The requests are a board of their own.
LEMMA NpcEffect ==
    ASSUME TypeOK,
           \/ \E n \in NpcId, T \in SUBSET Tag, b \in Bounty : npc_add(n, T, b)
           \/ \E n : npc_take(n)
           \/ \E A : npc_despawn_aged(A)
    PROVE  TypeOK' /\ BoardSame
<1>1. ASSUME NEW n \in NpcId, NEW T \in SUBSET Tag, NEW b \in Bounty, npc_add(n, T, b)
      PROVE  g_npc' \in Table(NpcIndex, NPCSlot)
  <2>1. PICK i \in FirstFree(g_npc, MAX_NPC_SLOTS) :
           g_npc' = Fill(g_npc, i, [npc_id |-> n, required_tags |-> T, bounty |-> b])
    BY <1>1 DEF npc_add
  <2>2. [npc_id |-> n, required_tags |-> T, bounty |-> b] \in NPCSlot
    BY DEF NPCSlot
  <2>3. QED
    BY <2>1, <2>2, FirstFreeInRange, FillType DEF NpcIndex, TypeOK
<1>2. ASSUME NEW n, npc_take(n)
      PROVE  g_npc' \in Table(NpcIndex, NPCSlot)
  <2>1. PICK i \in npc_find(n) : g_npc' = Vacate(g_npc, {i})
    BY <1>2 DEF npc_take
  <2>2. QED
    BY <2>1, VacateType DEF TypeOK
<1>3. ASSUME NEW A, npc_despawn_aged(A)
      PROVE  g_npc' \in Table(NpcIndex, NPCSlot)
  BY <1>3, VacateType DEF npc_despawn_aged, TypeOK
<1>4. UNCHANGED <<g_market, g_frozen_tags>>
  BY DEF npc_add, npc_take, npc_despawn_aged
<1>5. QED
  BY <1>1, <1>2, <1>3, <1>4 DEF TypeOK, BoardSame, SameOffer

\* A freeze or a thaw rewrites the flags and nothing else.
LEMMA FrostEffect ==
    ASSUME TypeOK, NEW T \in SUBSET Tag, freeze_tags(T) \/ unfreeze_tags(T)
    PROVE  TypeOK' /\ BoardSame
<1>1. /\ \A i \in DOMAIN g_market : g_market[i] \in MarketSlot
      /\ DOMAIN g_market \subseteq MarketIndex
  BY TableElim DEF TypeOK
<1>2. PICK f \in [DOMAIN g_market -> BOOLEAN] :
         g_market' = [i \in DOMAIN g_market |-> [g_market[i] EXCEPT !.is_frozen = f[i]]]
  <2>1. CASE freeze_tags(T)
    <3> DEFINE f == [i \in DOMAIN g_market |->
                        g_market[i].is_frozen \/ Overlap(g_market[i].tags, T)]
    <3>1. f \in [DOMAIN g_market -> BOOLEAN]
      BY <1>1 DEF MarketSlot, Overlap
    <3>2. g_market' = [i \in DOMAIN g_market |-> [g_market[i] EXCEPT !.is_frozen = f[i]]]
      BY <2>1 DEF freeze_tags
    <3>3. QED
      BY <3>1, <3>2
  <2>2. CASE unfreeze_tags(T)
    <3> DEFINE f == [i \in DOMAIN g_market |->
                        g_market[i].is_frozen
                           /\ ~ (/\ Overlap(g_market[i].tags, T)
                                 /\ ~ Overlap(g_market[i].tags, g_frozen_tags'))]
    <3>1. f \in [DOMAIN g_market -> BOOLEAN]
      BY <1>1 DEF MarketSlot, Overlap
    <3>2. g_market' = [i \in DOMAIN g_market |-> [g_market[i] EXCEPT !.is_frozen = f[i]]]
      BY <2>2 DEF unfreeze_tags
    <3>3. QED
      BY <3>1, <3>2
  <2>3. QED
    BY <2>1, <2>2
<1>3. /\ \A i \in DOMAIN g_market : g_market'[i] \in MarketSlot /\ SameOffer(i)
      /\ DOMAIN g_market' = DOMAIN g_market
      /\ g_market' = [i \in DOMAIN g_market' |-> g_market'[i]]
  BY <1>1, <1>2 DEF MarketSlot, SameOffer
<1>4. g_market' \in Table(MarketIndex, MarketSlot)
  BY <1>1, <1>3, TableIntro
<1>5. g_frozen_tags' \subseteq Tag /\ UNCHANGED g_npc
  BY DEF freeze_tags, unfreeze_tags, TypeOK
<1>6. QED
  BY <1>3, <1>4, <1>5 DEF TypeOK, BoardSame

-----------------------------------------------------------------------------
\* What the threads keep between two calls.

IdlePc == {"ready", "gone", "bust_money", "bust_count", "bust_burn"}
CountPc == {"buy_count", "buy_money"}
MovePc == {"buy_move", "buy_undo", "buy_pay"}

\* Reset adds to the threads points of its own: G is a set of such records, with none
\* of the points of Trade.
OwnPc ==
    IdlePc \cup CountPc \cup {"buy_take"} \cup MovePc
    \cup {"sell_check", "sell_dispose", "sell_pay"}
    \cup {"idle", "spawn_write", "spawn_add", "remove"}

Strangers(G) == \A h \in G : h.pc \notin OwnPc

\* TradeTypeOK, with threads that may be at one of these.
TypesWith(G) ==
    /\ TypeOK
    /\ users_dat \in [User -> Int]
    /\ master \in Table(DocId, SUBSET Tag)
    /\ sandbox \in [User -> Table(DocId, SUBSET Tag)]
    /\ th \in [User -> HandlerState \cup G]
    /\ ev \in EventState \cup G
    /\ raid \in [pc : {"idle"}] \cup [pc : {"purge"}, key : User]
    /\ {g_doc_id_counter, g_npc_id_counter, faults} \subseteq Nat
    /\ lost \subseteq DocId

\* The forms of a handler's locals.
LEMMA HandlerIntro ==
    /\ \A p \in IdlePc : [pc |-> p] \in HandlerState
    /\ \A p \in CountPc, d \in DocId, b \in Price :
          [pc |-> p, doc_id |-> d, base_price |-> b] \in HandlerState
    /\ \A d \in DocId, m \in Int :
          [pc |-> "buy_take", doc_id |-> d, money |-> m] \in HandlerState
    /\ \A p \in MovePc, s \in OfferShown, m \in Int :
          [pc |-> p, slot |-> s, money |-> m] \in HandlerState
    /\ \A n \in NpcId, I, D \in SUBSET DocId, R, W \in SUBSET Tag :
          [pc |-> "sell_check", npc_id |-> n, ids |-> I, todo |-> D,
           required_tags |-> R, tag_union |-> W] \in HandlerState
    /\ \A D \in SUBSET DocId, b \in Bounty :
          [pc |-> "sell_dispose", todo |-> D, bounty |-> b] \in HandlerState
    /\ \A m \in Int : [pc |-> "sell_pay", money |-> m] \in HandlerState
BY DEF HandlerState, IdlePc, CountPc, MovePc

\* What they are at each point.
LEMMA HandlerElim ==
    ASSUME NEW h \in HandlerState
    PROVE  /\ h.pc \in CountPc =>
                 /\ h.doc_id \in DocId /\ h.base_price \in Price
                 /\ h = [pc |-> h.pc, doc_id |-> h.doc_id, base_price |-> h.base_price]
           /\ h.pc = "buy_take" => h.doc_id \in DocId /\ h.money \in Int
           /\ h.pc \in MovePc =>
                 /\ h.slot \in OfferShown /\ h.money \in Int
                 /\ h = [pc |-> h.pc, slot |-> h.slot, money |-> h.money]
           /\ h.pc = "sell_check" =>
                 /\ h.npc_id \in NpcId /\ h.ids \in SUBSET DocId /\ h.todo \in SUBSET DocId
                 /\ h.required_tags \in SUBSET Tag /\ h.tag_union \in SUBSET Tag
                 /\ h = [pc |-> h.pc, npc_id |-> h.npc_id, ids |-> h.ids, todo |-> h.todo,
                         required_tags |-> h.required_tags, tag_union |-> h.tag_union]
           /\ h.pc = "sell_dispose" =>
                 /\ h.todo \in SUBSET DocId /\ h.bounty \in Bounty
                 /\ h = [pc |-> h.pc, todo |-> h.todo, bounty |-> h.bounty]
           /\ h.pc = "sell_pay" => h.money \in Int
BY DEF HandlerState, IdlePc, CountPc, MovePc

\* A buyer's thread goes on to the next call, and keeps the offer it took.
LEMMA MoveOn ==
    ASSUME NEW h \in HandlerState, h.pc \in MovePc, NEW p \in MovePc
    PROVE  /\ [h EXCEPT !.pc = p] \in HandlerState
           /\ [h EXCEPT !.pc = p].pc = p /\ [h EXCEPT !.pc = p].slot = h.slot
           /\ [h EXCEPT !.pc = p].money = h.money
<1>1. h = [pc |-> h.pc, slot |-> h.slot, money |-> h.money]
      /\ h.slot \in OfferShown /\ h.money \in Int
  BY HandlerElim
<1>2. [h EXCEPT !.pc = p] = [pc |-> p, slot |-> h.slot, money |-> h.money]
  BY <1>1
<1>3. QED
  BY <1>1, <1>2, HandlerIntro

LEMMA CountOn ==
    ASSUME NEW h \in HandlerState, h.pc \in CountPc, NEW p \in CountPc
    PROVE  /\ [h EXCEPT !.pc = p] \in HandlerState /\ [h EXCEPT !.pc = p].pc = p
           /\ [h EXCEPT !.pc = p].doc_id = h.doc_id
           /\ [h EXCEPT !.pc = p].base_price = h.base_price
<1>1. h = [pc |-> h.pc, doc_id |-> h.doc_id, base_price |-> h.base_price]
      /\ h.doc_id \in DocId /\ h.base_price \in Price
  BY HandlerElim
<1>2. [h EXCEPT !.pc = p] = [pc |-> p, doc_id |-> h.doc_id, base_price |-> h.base_price]
  BY <1>1
<1>3. QED
  BY <1>1, <1>2, HandlerIntro

Checking ==
    [pc : {"sell_check"}, npc_id : NpcId, ids : SUBSET DocId, todo : SUBSET DocId,
     required_tags : SUBSET Tag, tag_union : SUBSET Tag]

\* A seller's thread goes on to the next document.
LEMMA CheckOn ==
    ASSUME NEW h \in HandlerState, h.pc = "sell_check",
           NEW D \in SUBSET DocId, NEW W \in SUBSET Tag
    PROVE  /\ [h EXCEPT !.todo = D, !.tag_union = W] \in HandlerState
           /\ [h EXCEPT !.todo = D, !.tag_union = W].pc = "sell_check"
<1>1. h \in Checking
  BY DEF HandlerState, Checking
<1>2. /\ [h EXCEPT !.todo = D, !.tag_union = W] \in Checking
      /\ [h EXCEPT !.todo = D, !.tag_union = W].pc = "sell_check"
  BY <1>1 DEF Checking
<1>3. QED
  BY <1>2 DEF HandlerState, Checking

LEMMA DisposeOn ==
    ASSUME NEW h \in HandlerState, h.pc = "sell_dispose", NEW D \in SUBSET DocId
    PROVE  /\ [h EXCEPT !.todo = D] \in HandlerState
           /\ [h EXCEPT !.todo = D].pc = "sell_dispose"
<1>1. /\ h.bounty \in Bounty
      /\ h = [pc |-> "sell_dispose", todo |-> h.todo, bounty |-> h.bounty]
  BY HandlerElim
<1>2. [h EXCEPT !.todo = D] = [pc |-> "sell_dispose", todo |-> D, bounty |-> h.bounty]
  BY <1>1
<1>3. QED
  BY <1>1, <1>2, HandlerIntro

\* The forms of the event thread's locals.
LEMMA EventForms ==
    /\ [pc |-> "idle"] \in EventState
    /\ \A p \in {"spawn_write", "spawn_add"}, d \in DocId, T \in SUBSET Tag, b \in Price :
          [pc |-> p, doc_id |-> d, tags |-> T, base_price |-> b] \in EventState
    /\ \A I \in SUBSET DocId : [pc |-> "remove", ids |-> I] \in EventState
    /\ \A h \in EventState :
          /\ h.pc \in {"spawn_write", "spawn_add"} =>
                /\ h.doc_id \in DocId /\ h.tags \in SUBSET Tag /\ h.base_price \in Price
                /\ h = [pc |-> h.pc, doc_id |-> h.doc_id, tags |-> h.tags,
                        base_price |-> h.base_price]
          /\ h.pc = "remove" => h.ids \in SUBSET DocId /\ h = [pc |-> "remove", ids |-> h.ids]
BY DEF EventState

LEMMA WriteOn ==
    ASSUME NEW h \in EventState, h.pc = "spawn_write"
    PROVE  /\ [h EXCEPT !.pc = "spawn_add"] \in EventState
           /\ [h EXCEPT !.pc = "spawn_add"].pc = "spawn_add"
           /\ [h EXCEPT !.pc = "spawn_add"].doc_id = h.doc_id
           /\ [h EXCEPT !.pc = "spawn_add"].tags = h.tags
           /\ [h EXCEPT !.pc = "spawn_add"].base_price = h.base_price
<1>1. /\ h.doc_id \in DocId /\ h.tags \in SUBSET Tag /\ h.base_price \in Price
      /\ h = [pc |-> h.pc, doc_id |-> h.doc_id, tags |-> h.tags, base_price |-> h.base_price]
  BY EventForms
<1>2. [h EXCEPT !.pc = "spawn_add"]
         = [pc |-> "spawn_add", doc_id |-> h.doc_id, tags |-> h.tags,
            base_price |-> h.base_price]
  BY <1>1
<1>3. QED
  BY <1>1, <1>2, EventForms

LEMMA RemoveOn ==
    ASSUME NEW h \in EventState, h.pc = "remove", NEW I \in SUBSET DocId
    PROVE  /\ [h EXCEPT !.ids = I] \in EventState
           /\ [h EXCEPT !.ids = I].pc = "remove" /\ [h EXCEPT !.ids = I].ids = I
<1>1. h = [pc |-> "remove", ids |-> h.ids]
  BY EventForms
<1>2. [h EXCEPT !.ids = I] = [pc |-> "remove", ids |-> I]
  BY <1>1
<1>3. QED
  BY <1>2, EventForms

-----------------------------------------------------------------------------
\* What a step may do to the documents.  Every action keeps the types and is one of
\* eleven kinds; the invariants are about the kinds only.

\* The thread of u stays in, or out of, a passage.
ThreadSame(u) ==
    /\ Passes(u)' <=> Passes(u)
    /\ Passes(u) => th'[u].slot = th[u].slot

OthersSame(u) == \A v \in User \ {u} : ThreadSame(v)
ThreadsSame == \A v \in User : ThreadSame(v)

FoldersLess == \A v \in User : DOMAIN sandbox'[v] \subseteq DOMAIN sandbox[v]

MasterLess(d) ==
    /\ DOMAIN master' = DOMAIN master \ {d}
    /\ \A e \in DOMAIN master' : master'[e] = master[e]

\* Nothing changes hands; documents may be thrown away.
Quiet ==
    /\ BoardSame /\ ThreadsSame /\ FoldersLess
    /\ UNCHANGED <<master, ev, g_doc_id_counter, lost>>

\* BuyTake
Takes(u, i) ==
    /\ i \in DOMAIN g_market /\ BoardLess({i})
    /\ ~ Passes(u) /\ Passes(u)' /\ OthersSame(u) /\ FoldersLess
    /\ th'[u].slot.doc_id = g_market[i].doc_id /\ th'[u].slot.tags = g_market[i].tags
    /\ th'[u].slot.base_price = g_market[i].base_price
    /\ UNCHANGED <<master, ev, g_doc_id_counter, lost>>

\* BuyMove
Moves(u) ==
    /\ Passes(u) /\ ~ Passes(u)' /\ OthersSame(u) /\ BoardSame
    /\ th[u].slot.doc_id \in DOMAIN master /\ MasterLess(th[u].slot.doc_id)
    /\ DOMAIN sandbox'[u] = DOMAIN sandbox[u] \cup {th[u].slot.doc_id}
    /\ \A v \in User \ {u} : sandbox'[v] = sandbox[v]
    /\ UNCHANGED <<ev, g_doc_id_counter, lost>>

\* BuyUndo, on a board with a free slot and on a full one
Relists(u) ==
    /\ Passes(u) /\ ~ Passes(u)' /\ OthersSame(u) /\ FoldersLess
    /\ BoardMore(th[u].slot.doc_id, th[u].slot.tags, th[u].slot.base_price)
    /\ UNCHANGED <<master, ev, g_doc_id_counter, lost>>

Loses(u) ==
    /\ Passes(u) /\ ~ Passes(u)' /\ OthersSame(u) /\ FoldersLess /\ BoardSame
    /\ lost' = lost \cup {th[u].slot.doc_id}
    /\ UNCHANGED <<master, ev, g_doc_id_counter>>

EventOnly == ThreadsSame /\ FoldersLess /\ UNCHANGED lost

\* SpawnChoose, SpawnWrite, and SpawnAdd on a board with a free slot and on a full one
Chooses ==
    /\ EventOnly /\ BoardSame /\ UNCHANGED master
    /\ ev.pc = "idle" /\ ev'.pc = "spawn_write"
    /\ g_doc_id_counter < SPAWN_LIMIT
    /\ g_doc_id_counter' = g_doc_id_counter + 1 /\ ev'.doc_id = g_doc_id_counter'
    /\ ev'.tags \cap g_frozen_tags = {} /\ UNCHANGED g_frozen_tags

Writes ==
    /\ EventOnly /\ BoardSame /\ UNCHANGED g_doc_id_counter
    /\ ev.pc = "spawn_write" /\ ev'.pc = "spawn_add"
    /\ ev'.doc_id = ev.doc_id /\ ev'.tags = ev.tags /\ ev'.base_price = ev.base_price
    /\ DOMAIN master' = DOMAIN master \cup {ev.doc_id}
    /\ master'[ev.doc_id] = ev.tags
    /\ \A e \in DOMAIN master \ {ev.doc_id} : master'[e] = master[e]

Lists ==
    /\ EventOnly /\ BoardMore(ev.doc_id, ev.tags, ev.base_price)
    /\ UNCHANGED <<master, g_doc_id_counter>>
    /\ ev.pc = "spawn_add" /\ ev'.pc = "idle"

HandsBack ==
    /\ EventOnly /\ BoardSame /\ UNCHANGED <<master, g_doc_id_counter>>
    /\ ev.pc = "spawn_add" /\ ev'.pc = "remove" /\ ev'.ids = {ev.doc_id}

\* AgeMarket
Ages(S) ==
    /\ EventOnly /\ BoardLess(S) /\ UNCHANGED <<master, g_doc_id_counter>>
    /\ S \subseteq DOMAIN g_market
    /\ ev.pc = "idle" /\ ev'.pc = "remove" /\ ev'.ids = {g_market[i].doc_id : i \in S}

\* RemoveFile
Removes(d) ==
    /\ EventOnly /\ BoardSame /\ MasterLess(d) /\ UNCHANGED g_doc_id_counter
    /\ ev.pc = "remove" /\ d \in ev.ids
    /\ \/ ev'.pc = "idle" /\ ev.ids = {d}
       \/ ev'.pc = "remove" /\ ev'.ids = ev.ids \ {d}

Kinds ==
    \/ Quiet
    \/ \E u \in User : (\E i : Takes(u, i)) \/ Moves(u) \/ Relists(u) \/ Loses(u)
    \/ Chooses \/ Writes \/ Lists \/ HandsBack
    \/ (\E S : Ages(S)) \/ \E d : Removes(d)

-----------------------------------------------------------------------------
\* The actions.

LEMMA BoardStays ==
    ASSUME TypeOK, UNCHANGED vars
    PROVE  TypeOK' /\ BoardSame
BY DEF TypeOK, vars, BoardSame, SameOffer

\* A thread that goes on outside a passage.
LEMMA ThreadGoes ==
    ASSUME NEW G, Strangers(G), th \in [User -> HandlerState \cup G],
           NEW u \in User, NEW h \in HandlerState,
           Goto(u, h), ~ Passes(u), h.pc \notin Passing
    PROVE  th' \in [User -> HandlerState \cup G] /\ ThreadsSame
BY DEF Goto, ThreadsSame, ThreadSame, Passes

\* Most calls of a handler only read, and change nothing but its locals.
LEMMA ThreadOnly ==
    ASSUME NEW G, Strangers(G), TypesWith(G), NEW u \in User, NEW h \in HandlerState,
           Goto(u, h), ~ Passes(u), h.pc \notin Passing,
           UNCHANGED <<vars, store>>, OthersStay
    PROVE  TypesWith(G)' /\ Quiet
<1>1. th' \in [User -> HandlerState \cup G] /\ ThreadsSame
  BY ThreadGoes DEF TypesWith
<1>2. TypeOK' /\ BoardSame
  BY BoardStays DEF TypesWith
<1>3. UNCHANGED <<users_dat, master, sandbox, ev, raid, g_doc_id_counter, g_npc_id_counter,
                  faults, lost>>
  BY DEF store, OthersStay, counters
<1>4. QED
  BY <1>1, <1>2, <1>3 DEF TypesWith, Quiet, FoldersLess

\* A handler that writes the record.
LEMMA MoneyStep ==
    ASSUME NEW G, Strangers(G), TypesWith(G),
           NEW u \in User, NEW h \in HandlerState, NEW m \in Int,
           Goto(u, h), ~ Passes(u), h.pc \notin Passing,
           userdb_update_at(u, m), UNCHANGED vars, OthersStay
    PROVE  TypesWith(G)' /\ Quiet
<1>1. th' \in [User -> HandlerState \cup G] /\ ThreadsSame
  BY ThreadGoes DEF TypesWith
<1>2. TypeOK' /\ BoardSame
  BY BoardStays DEF TypesWith
<1>3. UNCHANGED <<master, sandbox, ev, raid, g_doc_id_counter, g_npc_id_counter,
                  faults, lost>>
  BY DEF userdb_update_at, OthersStay, counters
<1>4. users_dat' \in [User -> Int]
  BY DEF userdb_update_at, TypesWith
<1>5. QED
  BY <1>1, <1>2, <1>3, <1>4 DEF TypesWith, Quiet, FoldersLess

\* Folders of files are tables: what removing and writing a file does to one.
LEMMA FileTable ==
    ASSUME NEW t \in Table(DocId, SUBSET Tag)
    PROVE  /\ \A S : /\ Vacate(t, S) \in Table(DocId, SUBSET Tag)
                     /\ DOMAIN Vacate(t, S) = DOMAIN t \ S
                     /\ \A e \in DOMAIN t \ S : Vacate(t, S)[e] = t[e]
           /\ \A d \in DocId, T \in SUBSET Tag :
                 /\ Fill(t, d, T) \in Table(DocId, SUBSET Tag)
                 /\ DOMAIN Fill(t, d, T) = DOMAIN t \cup {d}
                 /\ Fill(t, d, T)[d] = T
                 /\ \A e \in DOMAIN t \ {d} : Fill(t, d, T)[e] = t[e]
<1> DEFINE Masks == SUBSET Tag
<1>1. t \in Table(DocId, Masks)
  OBVIOUS
<1> HIDE DEF Masks
<1>2. ASSUME NEW S
      PROVE  /\ Vacate(t, S) \in Table(DocId, Masks)
             /\ DOMAIN Vacate(t, S) = DOMAIN t \ S
             /\ \A e \in DOMAIN t \ S : Vacate(t, S)[e] = t[e]
  <2>1. Vacate(t, S) \in Table(DocId, Masks)
    BY <1>1, VacateType
  <2>2. QED
    BY <2>1 DEF Vacate, Restrict
<1>3. ASSUME NEW d \in DocId, NEW T \in Masks
      PROVE  /\ Fill(t, d, T) \in Table(DocId, Masks)
             /\ DOMAIN Fill(t, d, T) = DOMAIN t \cup {d}
             /\ Fill(t, d, T)[d] = T
             /\ \A e \in DOMAIN t \ {d} : Fill(t, d, T)[e] = t[e]
  <2>1. Fill(t, d, T) \in Table(DocId, Masks)
    BY <1>1, FillType
  <2>2. QED
    BY <2>1 DEF Fill
<1>4. QED
  BY <1>2, <1>3 DEF Masks

\* Files that go from a folder.
LEMMA FolderCut ==
    ASSUME sandbox \in [User -> Table(DocId, SUBSET Tag)], NEW u \in User, NEW S,
           sandbox' = [sandbox EXCEPT ![u] = Vacate(sandbox[u], S)]
    PROVE  sandbox' \in [User -> Table(DocId, SUBSET Tag)] /\ FoldersLess
<1>1. sandbox[u] \in Table(DocId, SUBSET Tag)
  OBVIOUS
<1>2. PICK w \in Table(DocId, SUBSET Tag) :
         w = Vacate(sandbox[u], S) /\ DOMAIN w \subseteq DOMAIN sandbox[u]
  <2>1. /\ Vacate(sandbox[u], S) \in Table(DocId, SUBSET Tag)
        /\ DOMAIN Vacate(sandbox[u], S) = DOMAIN sandbox[u] \ S
    BY <1>1, FileTable
  <2>2. QED
    BY <2>1
<1>3. sandbox' = [sandbox EXCEPT ![u] = w]
  BY <1>2
<1>4. sandbox' \in [User -> Table(DocId, SUBSET Tag)]
  BY <1>3
<1>5. FoldersLess
  BY <1>2, <1>3 DEF FoldersLess
<1>6. QED
  BY <1>4, <1>5

\* Outside a passage: the points a handler may be at, and what Goto needs.
LEMMA ReadyIdle ==
    /\ Ready \in HandlerState /\ Ready.pc = "ready"
    /\ CheckBust \in HandlerState /\ CheckBust.pc = "bust_money"
BY HandlerIntro DEF Ready, CheckBust, IdlePc

\* handle_buy up to market_take, and check_bankruptcy.
LEMMA BuyFindKind ==
    ASSUME NEW G, Strangers(G), TypesWith(G),
           NEW u \in User, NEW d \in DocId, BuyFind(u, d)
    PROVE  TypesWith(G)' /\ Quiet
<1>1. ~ Passes(u) /\ UNCHANGED <<vars, store>> /\ OthersStay
  BY DEF BuyFind, At, Passes, Passing
<1>2. ASSUME NEW i \in market_find(d),
             Goto(u, [pc |-> "buy_count", doc_id |-> d, base_price |-> g_market[i].base_price])
      PROVE  TypesWith(G)' /\ Quiet
  <2> DEFINE h == [pc |-> "buy_count", doc_id |-> d, base_price |-> g_market[i].base_price]
  <2>1. i \in DOMAIN g_market
    BY DEF market_find, FirstOf, SlotsOf
  <2>2. g_market[i] \in MarketSlot
    BY <2>1, TableElim DEF TypesWith, TypeOK
  <2>3. h \in HandlerState /\ h.pc \notin Passing
    BY <2>2, HandlerIntro DEF MarketSlot, CountPc, Passing
  <2>4. QED
    BY <1>1, <1>2, <2>3, ThreadOnly
<1>3. ASSUME Goto(u, CheckBust)
      PROVE  TypesWith(G)' /\ Quiet
  BY <1>1, <1>3, ReadyIdle, ThreadOnly DEF Passing
<1>4. QED
  BY <1>2, <1>3 DEF BuyFind

LEMMA BuyCountKind ==
    ASSUME NEW G, Strangers(G), TypesWith(G), NEW u \in User, BuyCount(u)
    PROVE  TypesWith(G)' /\ Quiet
<1>1. /\ ~ Passes(u) /\ UNCHANGED <<vars, store>> /\ OthersStay
      /\ th[u] \in HandlerState /\ th[u].pc \in CountPc
  BY DEF BuyCount, At, Passes, Passing, CountPc, TypesWith, Strangers, OwnPc, IdlePc,
         MovePc
<1>2. CASE Goto(u, CheckBust)
  BY <1>1, <1>2, ReadyIdle, ThreadOnly DEF Passing
<1>3. CASE Goto(u, [th[u] EXCEPT !.pc = "buy_money"])
  <2>1. [th[u] EXCEPT !.pc = "buy_money"] \in HandlerState
        /\ [th[u] EXCEPT !.pc = "buy_money"].pc = "buy_money"
    BY <1>1, CountOn DEF CountPc
  <2>2. QED
    BY <1>1, <1>3, <2>1, ThreadOnly DEF Passing
<1>4. QED
  BY <1>2, <1>3 DEF BuyCount

LEMMA BuyMoneyKind ==
    ASSUME NEW G, Strangers(G), TypesWith(G), NEW u \in User, BuyMoney(u)
    PROVE  TypesWith(G)' /\ Quiet
<1>1. /\ ~ Passes(u) /\ UNCHANGED <<vars, store>> /\ OthersStay
      /\ th[u] \in HandlerState /\ th[u].pc \in CountPc /\ users_dat[u] \in Int
  BY DEF BuyMoney, At, Passes, Passing, CountPc, TypesWith, Strangers, OwnPc, IdlePc,
         MovePc
<1> DEFINE h == [pc |-> "buy_take", doc_id |-> th[u].doc_id, money |-> users_dat[u]]
<1>2. CASE Goto(u, CheckBust)
  BY <1>1, <1>2, ReadyIdle, ThreadOnly DEF Passing
<1>3. CASE Goto(u, h)
  <2>1. th[u].doc_id \in DocId
    BY <1>1, HandlerElim
  <2>2. h \in HandlerState /\ h.pc = "buy_take"
    BY <1>1, <2>1, HandlerIntro
  <2>3. QED
    BY <1>1, <1>3, <2>2, ThreadOnly DEF Passing
<1>4. QED
  BY <1>2, <1>3 DEF BuyMoney

LEMMA BustKind ==
    ASSUME NEW G, Strangers(G), TypesWith(G),
           NEW u \in User, BustMoney(u) \/ BustCount(u)
    PROVE  TypesWith(G)' /\ Quiet
<1>1. ~ Passes(u) /\ UNCHANGED <<vars, store>> /\ OthersStay
  BY DEF BustMoney, BustCount, At, Passes, Passing
<1>2. \E p \in IdlePc : Goto(u, [pc |-> p])
  BY DEF BustMoney, BustCount, Ready, IdlePc
<1>3. PICK p \in IdlePc : Goto(u, [pc |-> p])
  BY <1>2
<1>4. [pc |-> p] \in HandlerState /\ [pc |-> p].pc \notin Passing
  BY HandlerIntro DEF IdlePc, Passing
<1>5. QED
  BY <1>1, <1>3, <1>4, ThreadOnly

\* The handlers that write the record.
LEMMA PayKind ==
    ASSUME NEW G, Strangers(G), TypesWith(G),
           NEW u \in User, BuyPay(u) \/ BustBurn(u) \/ SellPay(u)
    PROVE  TypesWith(G)' /\ Quiet
<1>1. /\ ~ Passes(u) /\ UNCHANGED vars /\ OthersStay /\ th[u] \in HandlerState
  BY DEF BuyPay, BustBurn, SellPay, At, Passes, Passing, TypesWith, Strangers, OwnPc,
         IdlePc, CountPc, MovePc
<1>2. CASE BuyPay(u)
  <2>1. th[u].slot \in OfferShown /\ th[u].money \in Int
    BY <1>1, <1>2, HandlerElim DEF BuyPay, At, MovePc
  <2>2. th[u].slot.base_price \in Price
    BY <2>1 DEF OfferShown
  <2>3. Price \subseteq Int
    BY TradeAssumption
  <2> DEFINE m == th[u].money - th[u].slot.base_price
  <2>4. m \in Int
    <3>1. th[u].slot.base_price \in Int /\ th[u].money \in Int
      BY <2>1, <2>2, <2>3
    <3>2. \A a, b \in Int : a - b \in Int
      OBVIOUS
    <3>3. QED
      BY <3>1, <3>2, Zenon
  <2>5. Goto(u, CheckBust) /\ userdb_update_at(u, m)
    BY <1>2 DEF BuyPay
  <2> HIDE DEF m
  <2>6. QED
    BY <1>1, <2>4, <2>5, ReadyIdle, MoneyStep DEF Passing
<1>3. CASE BustBurn(u)
  <2>1. Goto(u, [pc |-> "gone"]) /\ userdb_update_at(u, BURNED) /\ BURNED \in Int
    BY <1>3 DEF BustBurn, userdb_burn_at, BURNED
  <2>2. [pc |-> "gone"] \in HandlerState /\ [pc |-> "gone"].pc \notin Passing
    BY HandlerIntro DEF IdlePc, Passing
  <2>3. QED
    BY <1>1, <2>1, <2>2, MoneyStep
<1>4. CASE SellPay(u)
  <2>1. Goto(u, Ready) /\ userdb_update_at(u, th[u].money) /\ th[u].money \in Int
    BY <1>1, <1>4, HandlerElim DEF SellPay, At
  <2>2. QED
    BY <1>1, <2>1, ReadyIdle, MoneyStep DEF Passing
<1>5. QED
  BY <1>2, <1>3, <1>4

\* Where a thread enters or leaves a passage: the others do nothing.
LEMMA OneGoes ==
    ASSUME NEW G, Strangers(G), th \in [User -> HandlerState \cup G],
           NEW u \in User, NEW h \in HandlerState,
           Goto(u, h)
    PROVE  /\ th' \in [User -> HandlerState \cup G] /\ OthersSame(u) /\ th'[u] = h
           /\ Passes(u)' <=> h.pc \in Passing
BY DEF Goto, OthersSame, ThreadSame, Passes

LEMMA BuyTakeKind ==
    ASSUME NEW G, Strangers(G), TypesWith(G), NEW u \in User, BuyTake(u)
    PROVE  TypesWith(G)' /\ (Quiet \/ \E i : Takes(u, i))
<1>1. /\ ~ Passes(u) /\ UNCHANGED store /\ OthersStay
      /\ th[u] \in HandlerState /\ th[u].pc = "buy_take"
  BY DEF BuyTake, At, Passes, Passing, TypesWith, Strangers, OwnPc, IdlePc, CountPc,
         MovePc
<1>2. ASSUME NEW i \in market_find(th[u].doc_id), market_take(th[u].doc_id),
             Goto(u, [pc |-> "buy_move", slot |-> Shown(g_market[i]), money |-> th[u].money])
      PROVE  TypesWith(G)' /\ Takes(u, i)
  <2> DEFINE h == [pc |-> "buy_move", slot |-> Shown(g_market[i]), money |-> th[u].money]
  <2>1. TypeOK' /\ BoardLess({i}) /\ i \in DOMAIN g_market
    BY <1>2, TakeEffect DEF TypesWith
  <2>2. g_market[i] \in MarketSlot
    BY <2>1, TableElim DEF TypesWith, TypeOK
  <2>3. /\ Shown(g_market[i]) \in OfferShown
        /\ Shown(g_market[i]).doc_id = g_market[i].doc_id
        /\ Shown(g_market[i]).tags = g_market[i].tags
        /\ Shown(g_market[i]).base_price = g_market[i].base_price
    BY <2>2 DEF MarketSlot, Shown, OfferShown
  <2>4. th[u].money \in Int
    BY <1>1, HandlerElim
  <2>5. h \in HandlerState /\ h.pc \in Passing /\ h.slot = Shown(g_market[i])
    BY <2>3, <2>4, HandlerIntro DEF MovePc, Passing
  <2>6. Goto(u, h)
    BY <1>2
  <2> HIDE DEF h
  <2>7. /\ th' \in [User -> HandlerState \cup G] /\ OthersSame(u) /\ th'[u] = h /\ Passes(u)'
    BY <2>5, <2>6, OneGoes DEF TypesWith
  <2>8. UNCHANGED <<users_dat, master, sandbox, ev, raid, g_doc_id_counter,
                    g_npc_id_counter, faults, lost>>
    BY <1>1 DEF store, OthersStay, counters
  <2>9. TypesWith(G)'
    BY <2>1, <2>7, <2>8 DEF TypesWith
  <2>10. Takes(u, i)
    BY <1>1, <2>1, <2>3, <2>5, <2>7, <2>8 DEF Takes, FoldersLess
  <2>11. QED
    BY <2>9, <2>10
<1>3. ASSUME Goto(u, CheckBust), UNCHANGED vars
      PROVE  TypesWith(G)' /\ Quiet
  BY <1>1, <1>3, ReadyIdle, ThreadOnly DEF Passing
<1>4. QED
  BY <1>2, <1>3 DEF BuyTake

LEMMA BuyMoveKind ==
    ASSUME NEW G, Strangers(G), TypesWith(G), NEW u \in User, BuyMove(u)
    PROVE  TypesWith(G)' /\ (Quiet \/ Moves(u))
<1> DEFINE d == th[u].slot.doc_id
<1>1. /\ Passes(u) /\ th[u] \in HandlerState /\ th[u].pc \in MovePc
      /\ UNCHANGED <<vars, ev, raid, g_doc_id_counter, g_npc_id_counter, lost>>
  BY DEF BuyMove, At, Passes, Passing, TypesWith, Strangers, OwnPc, IdlePc, CountPc,
         MovePc
<1>2. d \in DocId
  BY <1>1, HandlerElim DEF OfferShown
<1>3. TypeOK' /\ BoardSame
  BY <1>1, BoardStays DEF TypesWith
<1>4. ASSUME sandbox_buy(u, d), Goto(u, [th[u] EXCEPT !.pc = "buy_pay"]), UNCHANGED faults
      PROVE  TypesWith(G)' /\ Moves(u)
  <2>1. PICK h \in HandlerState : h = [th[u] EXCEPT !.pc = "buy_pay"] /\ h.pc = "buy_pay"
    BY <1>1, MoveOn DEF MovePc
  <2>2. th' \in [User -> HandlerState \cup G] /\ OthersSame(u) /\ ~ Passes(u)'
    BY <1>4, <2>1, OneGoes DEF TypesWith, Passing
  <2>3. /\ d \in DOMAIN master /\ UNCHANGED users_dat
        /\ sandbox' = [sandbox EXCEPT ![u] = Fill(@, d, master[d])]
        /\ master' = Vacate(master, {d})
    BY <1>4 DEF sandbox_buy
  <2>4. master[d] \in SUBSET Tag
    BY <2>3, TableElim DEF TypesWith
  <2>5. sandbox[u] \in Table(DocId, SUBSET Tag) /\ master \in Table(DocId, SUBSET Tag)
    BY DEF TypesWith
  <2>6. /\ Fill(sandbox[u], d, master[d]) \in Table(DocId, SUBSET Tag)
        /\ DOMAIN Fill(sandbox[u], d, master[d]) = DOMAIN sandbox[u] \cup {d}
    <3> HIDE DEF d
    <3>1. \A e \in DocId, T \in SUBSET Tag :
             /\ Fill(sandbox[u], e, T) \in Table(DocId, SUBSET Tag)
             /\ DOMAIN Fill(sandbox[u], e, T) = DOMAIN sandbox[u] \cup {e}
      BY <2>5, FileTable
    <3>2. QED
      BY <1>2, <2>4, <3>1, Zenon
  <2>7. master' \in Table(DocId, SUBSET Tag) /\ MasterLess(d)
    <3> HIDE DEF d
    <3>1. /\ Vacate(master, {d}) \in Table(DocId, SUBSET Tag)
          /\ DOMAIN Vacate(master, {d}) = DOMAIN master \ {d}
          /\ \A e \in DOMAIN master \ {d} : Vacate(master, {d})[e] = master[e]
      BY <2>5, FileTable
    <3>2. QED
      BY <2>3, <3>1 DEF MasterLess
  <2>8. PICK w \in Table(DocId, SUBSET Tag) :
           /\ w = Fill(sandbox[u], d, master[d])
           /\ DOMAIN w = DOMAIN sandbox[u] \cup {d}
    BY <2>6
  <2>9. sandbox' = [sandbox EXCEPT ![u] = w]
    BY <2>3, <2>8
  <2>10. /\ sandbox' \in [User -> Table(DocId, SUBSET Tag)]
         /\ DOMAIN sandbox'[u] = DOMAIN sandbox[u] \cup {d}
         /\ \A v \in User \ {u} : sandbox'[v] = sandbox[v]
    BY <2>8, <2>9 DEF TypesWith
  <2>11. TypesWith(G)'
    BY <1>1, <1>3, <1>4, <2>2, <2>3, <2>7, <2>10 DEF TypesWith
  <2>12. Moves(u)
    BY <1>1, <1>3, <2>2, <2>3, <2>7, <2>10 DEF Moves
  <2>13. QED
    BY <2>11, <2>12
<1>5. ASSUME Goto(u, [th[u] EXCEPT !.pc = "buy_undo"]), UNCHANGED store, faults' \in Nat
      PROVE  TypesWith(G)' /\ Quiet
  <2>1. PICK h \in HandlerState : /\ h = [th[u] EXCEPT !.pc = "buy_undo"]
                                  /\ h.pc = "buy_undo" /\ h.slot = th[u].slot
    BY <1>1, MoveOn DEF MovePc
  <2>2. /\ th' \in [User -> HandlerState \cup G] /\ OthersSame(u) /\ Passes(u)'
        /\ th'[u].slot = th[u].slot
    <3>1. Goto(u, h) /\ th \in [User -> HandlerState \cup G] /\ h.pc \in Passing
      BY <1>5, <2>1 DEF TypesWith, Passing
    <3>2. QED
      BY <2>1, <3>1, OneGoes
  <2>3. ThreadsSame
    BY <1>1, <2>2 DEF ThreadsSame, OthersSame, ThreadSame
  <2>4. UNCHANGED <<users_dat, master, sandbox>>
    BY <1>5 DEF store
  <2>5. TypesWith(G)'
    BY <1>1, <1>3, <1>5, <2>2, <2>4 DEF TypesWith
  <2>6. Quiet
    BY <1>1, <1>3, <2>3, <2>4 DEF Quiet, FoldersLess
  <2>7. QED
    BY <2>5, <2>6
<1>6. faults \in Nat /\ faults + 1 \in Nat
  BY DEF TypesWith
<1>7. QED
  BY <1>4, <1>5, <1>6 DEF BuyMove

LEMMA BuyUndoKind ==
    ASSUME NEW G, Strangers(G), TypesWith(G), NEW u \in User, BuyUndo(u)
    PROVE  TypesWith(G)' /\ (Relists(u) \/ Loses(u))
<1> DEFINE s == th[u].slot
<1>1. /\ Passes(u) /\ th[u] \in HandlerState /\ th[u].pc \in MovePc /\ Goto(u, CheckBust)
      /\ UNCHANGED <<store, ev, raid, g_doc_id_counter, g_npc_id_counter, faults>>
  BY DEF BuyUndo, At, Passes, Passing, TypesWith, Strangers, OwnPc, IdlePc, CountPc,
         MovePc
<1>2. s \in OfferShown
  BY <1>1, HandlerElim
<1>3. s.doc_id \in DocId /\ s.tags \in SUBSET Tag /\ s.base_price \in Price
  BY <1>2 DEF OfferShown
<1>4. th' \in [User -> HandlerState \cup G] /\ OthersSame(u) /\ ~ Passes(u)'
  BY <1>1, ReadyIdle, OneGoes DEF TypesWith, Passing
<1>5. UNCHANGED <<users_dat, master, sandbox, ev, raid, g_doc_id_counter,
                  g_npc_id_counter, faults>>
  BY <1>1 DEF store
<1>6. CASE market_add(s.doc_id, s.tags, s.base_price) /\ UNCHANGED lost
  <2>1. TypeOK' /\ BoardMore(s.doc_id, s.tags, s.base_price)
    BY <1>3, <1>6, AddEffect DEF TypesWith
  <2>2. TypesWith(G)'
    BY <1>4, <1>5, <1>6, <2>1 DEF TypesWith
  <2>3. Relists(u)
    BY <1>1, <1>4, <1>5, <1>6, <2>1 DEF Relists, FoldersLess
  <2>4. QED
    BY <2>2, <2>3
<1>7. CASE lost' = lost \cup {s.doc_id} /\ UNCHANGED vars
  <2>1. TypeOK' /\ BoardSame
    BY <1>7, BoardStays DEF TypesWith
  <2>2. TypesWith(G)'
    BY <1>3, <1>4, <1>5, <1>7, <2>1 DEF TypesWith
  <2>3. Loses(u)
    BY <1>1, <1>4, <1>5, <1>7, <2>1 DEF Loses, FoldersLess
  <2>4. QED
    BY <2>2, <2>3
<1>8. QED
  BY <1>6, <1>7 DEF BuyUndo

\* handle_sell and handle_dispose.
LEMMA SellFindKind ==
    ASSUME NEW G, Strangers(G), TypesWith(G),
           NEW u \in User, NEW n \in NpcId, NEW ids \in SUBSET DocId,
           SellFind(u, n, ids)
    PROVE  TypesWith(G)' /\ Quiet
<1>1. ~ Passes(u) /\ UNCHANGED <<vars, store>> /\ OthersStay
  BY DEF SellFind, At, Passes, Passing
<1>2. PICK i \in npc_find(n) :
         Goto(u, [pc |-> "sell_check", npc_id |-> n, ids |-> ids, todo |-> ids,
                  required_tags |-> g_npc[i].required_tags, tag_union |-> {}])
  BY DEF SellFind
<1>3. i \in DOMAIN g_npc
  BY DEF npc_find, FirstOf, NpcSlotsOf
<1>4. g_npc[i] \in NPCSlot
  BY <1>3, TableElim DEF TypesWith, TypeOK
<1>5. g_npc[i].required_tags \in SUBSET Tag
  BY <1>4 DEF NPCSlot
<1> DEFINE h == [pc |-> "sell_check", npc_id |-> n, ids |-> ids, todo |-> ids,
                 required_tags |-> g_npc[i].required_tags, tag_union |-> {}]
<1>6. h \in HandlerState
  BY <1>5, HandlerIntro
<1>7. h.pc \notin Passing
  BY DEF Passing
<1>8. QED
  BY <1>1, <1>2, <1>6, <1>7, ThreadOnly

LEMMA SellCheckKind ==
    ASSUME NEW G, Strangers(G), TypesWith(G), NEW u \in User, SellCheck(u)
    PROVE  TypesWith(G)' /\ Quiet
<1>1. /\ ~ Passes(u) /\ UNCHANGED <<vars, store>> /\ OthersStay
      /\ th[u] \in HandlerState /\ th[u].pc = "sell_check"
  BY DEF SellCheck, At, Passes, Passing, TypesWith, Strangers, OwnPc, IdlePc, CountPc,
         MovePc
<1>2. th[u].todo \in SUBSET DocId /\ th[u].tag_union \in SUBSET Tag
  BY <1>1, HandlerElim
<1>3. PICK d \in FirstOf(th[u].todo) :
         Goto(u, IF ~ sandbox_has(u, d) THEN Ready
                 ELSE IF is_tag_frozen(sandbox[u][d]) THEN Ready
                 ELSE [th[u] EXCEPT !.todo = @ \ {d}, !.tag_union = @ \cup sandbox[u][d]])
  BY DEF SellCheck
<1>4. CASE Goto(u, Ready)
  BY <1>1, <1>4, ReadyIdle, ThreadOnly DEF Passing
<1>5. CASE /\ sandbox_has(u, d)
           /\ Goto(u, [th[u] EXCEPT !.todo = @ \ {d}, !.tag_union = @ \cup sandbox[u][d]])
  <2>1. sandbox[u] \in Table(DocId, SUBSET Tag)
    BY DEF TypesWith
  <2>2. sandbox[u][d] \in SUBSET Tag
    BY <1>5, <2>1, TableElim DEF sandbox_has
  <2>3. PICK D \in SUBSET DocId, W \in SUBSET Tag :
           D = th[u].todo \ {d} /\ W = th[u].tag_union \cup sandbox[u][d]
    BY <1>2, <2>2
  <2>4. [th[u] EXCEPT !.todo = @ \ {d}, !.tag_union = @ \cup sandbox[u][d]]
           = [th[u] EXCEPT !.todo = D, !.tag_union = W]
    BY <2>3
  <2>5. PICK h \in HandlerState :
           h = [th[u] EXCEPT !.todo = D, !.tag_union = W] /\ h.pc = "sell_check"
    BY <1>1, CheckOn
  <2>6. Goto(u, h)
    BY <1>5, <2>4, <2>5
  <2>7. QED
    BY <1>1, <2>5, <2>6, ThreadOnly DEF Passing
<1>6. QED
  BY <1>3, <1>4, <1>5

LEMMA SellTakeKind ==
    ASSUME NEW G, Strangers(G), TypesWith(G), NEW u \in User, SellTake(u)
    PROVE  TypesWith(G)' /\ Quiet
<1>1. /\ ~ Passes(u) /\ UNCHANGED store /\ OthersStay
      /\ th[u] \in HandlerState /\ th[u].pc = "sell_check"
  BY DEF SellTake, At, Passes, Passing, TypesWith, Strangers, OwnPc, IdlePc, CountPc,
         MovePc
<1>2. CASE Goto(u, Ready) /\ UNCHANGED vars
  BY <1>1, <1>2, ReadyIdle, ThreadOnly DEF Passing
<1>3. ASSUME NEW i \in npc_find(th[u].npc_id), npc_take(th[u].npc_id),
             Goto(u, [pc |-> "sell_dispose", todo |-> th[u].ids, bounty |-> g_npc[i].bounty])
      PROVE  TypesWith(G)' /\ Quiet
  <2> DEFINE h == [pc |-> "sell_dispose", todo |-> th[u].ids, bounty |-> g_npc[i].bounty]
  <2>1. i \in DOMAIN g_npc
    BY DEF npc_find, FirstOf, NpcSlotsOf
  <2>2. g_npc[i] \in NPCSlot
    BY <2>1, TableElim DEF TypesWith, TypeOK
  <2>3. g_npc[i].bounty \in Bounty /\ th[u].ids \in SUBSET DocId
    BY <1>1, <2>2, HandlerElim DEF NPCSlot
  <2>4. h \in HandlerState /\ h.pc \notin Passing /\ Goto(u, h)
    BY <1>3, <2>3, HandlerIntro DEF Passing
  <2> HIDE DEF h
  <2>5. th' \in [User -> HandlerState \cup G] /\ ThreadsSame
    BY <1>1, <2>4, ThreadGoes DEF TypesWith
  <2>6. TypeOK' /\ BoardSame
    BY <1>3, NpcEffect DEF TypesWith
  <2>7. UNCHANGED <<users_dat, master, sandbox, ev, raid, g_doc_id_counter,
                    g_npc_id_counter, faults, lost>>
    BY <1>1 DEF store, OthersStay, counters
  <2>8. TypesWith(G)'
    BY <2>5, <2>6, <2>7 DEF TypesWith
  <2>9. Quiet
    BY <2>5, <2>6, <2>7 DEF Quiet, FoldersLess
  <2>10. QED
    BY <2>8, <2>9
<1>4. QED
  BY <1>2, <1>3 DEF SellTake

\* A file goes from a folder; the thread stays outside a passage.
LEMMA DisposeStep ==
    ASSUME NEW G, Strangers(G), TypesWith(G),
           NEW u \in User, NEW d, sandbox_dispose(u, d),
           th' \in [User -> HandlerState \cup G], ThreadsSame, UNCHANGED vars, OthersStay
    PROVE  TypesWith(G)' /\ Quiet
<1>1. sandbox' \in [User -> Table(DocId, SUBSET Tag)] /\ FoldersLess
  BY FolderCut DEF TypesWith, sandbox_dispose
<1>2. TypeOK' /\ BoardSame
  BY BoardStays DEF TypesWith
<1>3. UNCHANGED <<users_dat, master, ev, raid, g_doc_id_counter, g_npc_id_counter,
                  faults, lost>>
  BY DEF sandbox_dispose, OthersStay, counters
<1>4. QED
  BY <1>1, <1>2, <1>3 DEF TypesWith, Quiet

LEMMA SellDisposeKind ==
    ASSUME NEW G, Strangers(G), TypesWith(G), NEW u \in User, SellDispose(u)
    PROVE  TypesWith(G)' /\ Quiet
<1>1. /\ ~ Passes(u) /\ UNCHANGED vars /\ OthersStay
      /\ th[u] \in HandlerState /\ th[u].pc = "sell_dispose"
  BY DEF SellDispose, At, Passes, Passing, TypesWith, Strangers, OwnPc, IdlePc,
         CountPc, MovePc
<1>2. PICK d \in FirstOf(th[u].todo) :
         sandbox_dispose(u, d) /\ Goto(u, [th[u] EXCEPT !.todo = @ \ {d}])
  BY DEF SellDispose
<1>3. PICK D \in SUBSET DocId : D = th[u].todo \ {d}
  BY <1>1, HandlerElim
<1>4. PICK h \in HandlerState : h = [th[u] EXCEPT !.todo = D] /\ h.pc = "sell_dispose"
  BY <1>1, DisposeOn
<1>5. Goto(u, h)
  BY <1>2, <1>3, <1>4
<1>6. th' \in [User -> HandlerState \cup G] /\ ThreadsSame
  BY <1>1, <1>4, <1>5, ThreadGoes DEF TypesWith, Passing
<1>7. QED
  BY <1>1, <1>2, <1>6, DisposeStep

LEMMA SellMoneyKind ==
    ASSUME NEW G, Strangers(G), TypesWith(G), NEW u \in User, SellMoney(u)
    PROVE  TypesWith(G)' /\ Quiet
<1>1. /\ ~ Passes(u) /\ UNCHANGED <<vars, store>> /\ OthersStay
      /\ th[u] \in HandlerState /\ th[u].pc = "sell_dispose" /\ users_dat[u] \in Int
      /\ Goto(u, [pc |-> "sell_pay", money |-> users_dat[u] + th[u].bounty])
  BY DEF SellMoney, At, Passes, Passing, TypesWith, Strangers, OwnPc, IdlePc, CountPc,
         MovePc
<1>2. th[u].bounty \in Int
  <2>1. th[u].bounty \in Bounty
    BY <1>1, HandlerElim
  <2>2. Bounty \subseteq Int
    BY TradeAssumption
  <2>3. QED
    BY <2>1, <2>2
<1>3. users_dat[u] + th[u].bounty \in Int
  <2>1. \A a, b \in Int : a + b \in Int
    OBVIOUS
  <2>2. QED
    BY <1>1, <1>2, <2>1, Zenon
<1>4. PICK m \in Int : m = users_dat[u] + th[u].bounty
  BY <1>3
<1>5. [pc |-> "sell_pay", money |-> m] \in HandlerState
      /\ [pc |-> "sell_pay", money |-> m].pc \notin Passing
      /\ Goto(u, [pc |-> "sell_pay", money |-> m])
  BY <1>1, <1>4, HandlerIntro DEF Passing
<1>6. QED
  BY <1>1, <1>5, ThreadOnly

LEMMA HandleDisposeKind ==
    ASSUME NEW G, Strangers(G), TypesWith(G),
           NEW u \in User, NEW d \in DocId, handle_dispose(u, d)
    PROVE  TypesWith(G)' /\ Quiet
<1>1. sandbox_dispose(u, d) /\ UNCHANGED <<vars, th>> /\ OthersStay
  BY DEF handle_dispose
<1>2. th' \in [User -> HandlerState \cup G] /\ ThreadsSame
  BY <1>1 DEF TypesWith, ThreadsSame, ThreadSame, Passes
<1>3. QED
  BY <1>1, <1>2, DisposeStep

\* The event thread and the freezes leave the handlers and their files alone.
LEMMA EventStep ==
    ASSUME NEW G, Strangers(G), TypesWith(G),
           HandlersStay, UNCHANGED <<users_dat, sandbox>>,
           TypeOK', master' \in Table(DocId, SUBSET Tag), ev' \in EventState \cup G,
           g_doc_id_counter' \in Nat, g_npc_id_counter' \in Nat
    PROVE  TypesWith(G)' /\ EventOnly
<1>1. UNCHANGED <<th, raid, faults, lost>>
  BY DEF HandlersStay
<1>2. TypesWith(G)'
  BY <1>1 DEF TypesWith
<1>3. EventOnly
  BY <1>1 DEF EventOnly, ThreadsSame, ThreadSame, FoldersLess, Passes
<1>4. QED
  BY <1>2, <1>3

\* The new id is one of those that the spawner may give out.
LEMMA SpawnChooseKind ==
    ASSUME NEW G, Strangers(G), TypesWith(G),
           NEW T \in SUBSET Tag, NEW p \in Price, SpawnChoose(T, p)
    PROVE  TypesWith(G)' /\ Chooses
<1> DEFINE d == g_doc_id_counter + 1
<1>1. /\ ev.pc = "idle" /\ g_doc_id_counter < SPAWN_LIMIT /\ g_doc_id_counter' = d
      /\ ev' = [pc |-> "spawn_write", doc_id |-> g_doc_id_counter', tags |-> T,
                base_price |-> p]
      /\ UNCHANGED <<vars, users_dat, master, sandbox, g_npc_id_counter>> /\ HandlersStay
  BY DEF SpawnChoose, store
<1>2. g_doc_id_counter \in Nat /\ g_npc_id_counter \in Nat /\ SPAWN_LIMIT \in Nat
  BY TradeAssumption DEF TypesWith
<1>3. d \in Nat /\ d \in 1 .. SPAWN_LIMIT
  BY <1>1, <1>2
<1>4. d \in DocId
  <2>1. 1 .. SPAWN_LIMIT \subseteq DocId
    BY TradeAssumption
  <2>2. QED
    BY <1>3, <2>1
<1> HIDE DEF d
<1>5. ev' = [pc |-> "spawn_write", doc_id |-> d, tags |-> T, base_price |-> p]
  BY <1>1
<1>6. ev' \in EventState /\ ev'.pc = "spawn_write" /\ ev'.doc_id = d
  BY <1>4, <1>5, EventForms
<1>7. TypeOK' /\ BoardSame
  BY <1>1, BoardStays DEF TypesWith
<1>8. master' \in Table(DocId, SUBSET Tag)
  BY <1>1 DEF TypesWith
<1>9. TypesWith(G)' /\ EventOnly
  BY <1>1, <1>2, <1>3, <1>6, <1>7, <1>8, EventStep
<1>10. ev'.tags \cap g_frozen_tags = {} /\ UNCHANGED g_frozen_tags
  BY <1>5 DEF SpawnChoose, is_tag_frozen, Overlap, vars
<1>11. Chooses
  BY <1>1, <1>6, <1>7, <1>9, <1>10 DEF Chooses, d
<1>12. QED
  BY <1>9, <1>11

LEMMA SpawnWriteKind ==
    ASSUME NEW G, Strangers(G), TypesWith(G), SpawnWrite
    PROVE  TypesWith(G)' /\ Writes
<1>1. /\ ev.pc = "spawn_write" /\ master' = Fill(master, ev.doc_id, ev.tags)
      /\ ev' = [ev EXCEPT !.pc = "spawn_add"]
      /\ UNCHANGED <<vars, users_dat, sandbox, g_doc_id_counter, g_npc_id_counter>>
      /\ HandlersStay
  BY DEF SpawnWrite, master_write_doc
<1>2. /\ ev \in EventState /\ master \in Table(DocId, SUBSET Tag)
      /\ g_doc_id_counter' \in Nat /\ g_npc_id_counter' \in Nat
  BY <1>1 DEF TypesWith, Strangers, OwnPc, IdlePc, CountPc, MovePc
<1>3. ev.doc_id \in DocId /\ ev.tags \in SUBSET Tag
  BY <1>1, <1>2, EventForms
<1>4. /\ ev' \in EventState /\ ev'.pc = "spawn_add"
      /\ ev'.doc_id = ev.doc_id /\ ev'.tags = ev.tags /\ ev'.base_price = ev.base_price
  BY <1>1, <1>2, WriteOn
<1>5. PICK d \in DocId, T \in SUBSET Tag : d = ev.doc_id /\ T = ev.tags
  BY <1>3
<1>6. /\ Fill(master, d, T) \in Table(DocId, SUBSET Tag)
      /\ DOMAIN Fill(master, d, T) = DOMAIN master \cup {d}
      /\ Fill(master, d, T)[d] = T
      /\ \A e \in DOMAIN master \ {d} : Fill(master, d, T)[e] = master[e]
  <2>1. \A e \in DocId, M \in SUBSET Tag :
           /\ Fill(master, e, M) \in Table(DocId, SUBSET Tag)
           /\ DOMAIN Fill(master, e, M) = DOMAIN master \cup {e}
           /\ Fill(master, e, M)[e] = M
           /\ \A f \in DOMAIN master \ {e} : Fill(master, e, M)[f] = master[f]
    BY <1>2, FileTable, Zenon
  <2>2. QED
    BY <2>1, Zenon
<1>7. /\ master' \in Table(DocId, SUBSET Tag)
      /\ DOMAIN master' = DOMAIN master \cup {ev.doc_id}
      /\ master'[ev.doc_id] = ev.tags
      /\ \A e \in DOMAIN master \ {ev.doc_id} : master'[e] = master[e]
  BY <1>1, <1>5, <1>6
<1>8. TypeOK' /\ BoardSame
  BY <1>1, BoardStays DEF TypesWith
<1>9. TypesWith(G)' /\ EventOnly
  BY <1>1, <1>2, <1>4, <1>7, <1>8, EventStep
<1>10. QED
  BY <1>1, <1>4, <1>7, <1>8, <1>9 DEF Writes

LEMMA SpawnAddKind ==
    ASSUME NEW G, Strangers(G), TypesWith(G), SpawnAdd
    PROVE  TypesWith(G)' /\ (Lists \/ HandsBack)
<1>1. /\ ev.pc = "spawn_add" /\ HandlersStay
      /\ UNCHANGED <<users_dat, master, sandbox, g_doc_id_counter, g_npc_id_counter>>
  BY DEF SpawnAdd, store
<1>2. /\ ev \in EventState /\ master' \in Table(DocId, SUBSET Tag)
      /\ g_doc_id_counter' \in Nat /\ g_npc_id_counter' \in Nat
  BY <1>1 DEF TypesWith, Strangers, OwnPc, IdlePc, CountPc, MovePc
<1>3. ev.doc_id \in DocId /\ ev.tags \in SUBSET Tag /\ ev.base_price \in Price
  BY <1>1, <1>2, EventForms
<1>4. CASE market_add(ev.doc_id, ev.tags, ev.base_price) /\ ev' = [pc |-> "idle"]
  <2>1. TypeOK' /\ BoardMore(ev.doc_id, ev.tags, ev.base_price)
    BY <1>3, <1>4, AddEffect DEF TypesWith
  <2>2. ev' \in EventState /\ ev'.pc = "idle"
    BY <1>4, EventForms
  <2>3. TypesWith(G)' /\ EventOnly
    BY <1>1, <1>2, <2>1, <2>2, EventStep
  <2>4. QED
    BY <1>1, <2>1, <2>2, <2>3 DEF Lists
<1>5. CASE ev' = [pc |-> "remove", ids |-> {ev.doc_id}] /\ UNCHANGED vars
  <2>1. TypeOK' /\ BoardSame
    BY <1>5, BoardStays DEF TypesWith
  <2>2. ev' \in EventState /\ ev'.pc = "remove" /\ ev'.ids = {ev.doc_id}
    BY <1>3, <1>5, EventForms
  <2>3. TypesWith(G)' /\ EventOnly
    BY <1>1, <1>2, <2>1, <2>2, EventStep
  <2>4. QED
    BY <1>1, <2>1, <2>2, <2>3 DEF HandsBack
<1>6. QED
  BY <1>4, <1>5 DEF SpawnAdd

LEMMA AgeMarketKind ==
    ASSUME NEW G, Strangers(G), TypesWith(G), NEW A, AgeMarket(A)
    PROVE  TypesWith(G)' /\ Ages(A)
<1> DEFINE I == {g_market[i].doc_id : i \in A}
<1>1. /\ ev.pc = "idle" /\ HandlersStay /\ ev' = [pc |-> "remove", ids |-> I]
      /\ A \subseteq DOMAIN g_market /\ g_market' = Vacate(g_market, A)
      /\ UNCHANGED <<users_dat, master, sandbox, g_doc_id_counter, g_npc_id_counter>>
      /\ UNCHANGED <<g_npc, g_frozen_tags>>
  BY DEF AgeMarket, market_despawn_aged, store
<1>2. /\ master' \in Table(DocId, SUBSET Tag)
      /\ g_doc_id_counter' \in Nat /\ g_npc_id_counter' \in Nat
  BY <1>1 DEF TypesWith
<1>3. I \in SUBSET DocId
  <2>1. \A i \in DOMAIN g_market : g_market[i] \in MarketSlot
    BY TableElim DEF TypesWith, TypeOK
  <2>2. QED
    BY <1>1, <2>1 DEF MarketSlot
<1>4. ev' \in EventState /\ ev'.pc = "remove" /\ ev'.ids = I
  <2> HIDE DEF I
  <2>1. QED
    BY <1>1, <1>3, EventForms
<1>5. TypeOK' /\ BoardLess(A)
  BY <1>1, VacateEffect DEF TypesWith
<1>6. TypesWith(G)' /\ EventOnly
  BY <1>1, <1>2, <1>4, <1>5, EventStep
<1>7. QED
  BY <1>1, <1>4, <1>5, <1>6 DEF Ages

LEMMA RemoveFileKind ==
    ASSUME NEW G, Strangers(G), TypesWith(G), RemoveFile
    PROVE  TypesWith(G)' /\ \E d : Removes(d)
<1>1. /\ ev.pc = "remove" /\ HandlersStay
      /\ UNCHANGED <<vars, users_dat, sandbox, g_doc_id_counter, g_npc_id_counter>>
  BY DEF RemoveFile, master_remove_doc
<1>2. PICK d \in ev.ids :
         /\ master' = Vacate(master, {d})
         /\ ev' = IF ev.ids = {d} THEN [pc |-> "idle"] ELSE [ev EXCEPT !.ids = @ \ {d}]
  BY DEF RemoveFile, master_remove_doc
<1>3. /\ ev \in EventState /\ master \in Table(DocId, SUBSET Tag)
      /\ g_doc_id_counter' \in Nat /\ g_npc_id_counter' \in Nat
  BY <1>1 DEF TypesWith, Strangers, OwnPc, IdlePc, CountPc, MovePc
<1>4. master' \in Table(DocId, SUBSET Tag) /\ MasterLess(d)
  <2>1. /\ Vacate(master, {d}) \in Table(DocId, SUBSET Tag)
        /\ DOMAIN Vacate(master, {d}) = DOMAIN master \ {d}
        /\ \A e \in DOMAIN master \ {d} : Vacate(master, {d})[e] = master[e]
    BY <1>3, FileTable
  <2>2. QED
    BY <1>2, <2>1 DEF MasterLess
<1>5. /\ ev' \in EventState
      /\ \/ ev'.pc = "idle" /\ ev.ids = {d}
         \/ ev'.pc = "remove" /\ ev'.ids = ev.ids \ {d}
  <2>1. CASE ev.ids = {d} /\ ev' = [pc |-> "idle"]
    BY <2>1, EventForms
  <2>2. CASE ev' = [ev EXCEPT !.ids = @ \ {d}]
    <3>1. PICK I \in SUBSET DocId : I = ev.ids \ {d}
      BY <1>1, <1>3, EventForms
    <3>2. ev' = [ev EXCEPT !.ids = I]
      BY <2>2, <3>1
    <3>3. ev' \in EventState /\ ev'.pc = "remove" /\ ev'.ids = I
      BY <1>1, <1>3, <3>2, RemoveOn
    <3>4. QED
      BY <3>1, <3>3
  <2>3. QED
    BY <1>2, <2>1, <2>2
<1>6. TypeOK' /\ BoardSame
  BY <1>1, BoardStays DEF TypesWith
<1>7. TypesWith(G)' /\ EventOnly
  BY <1>1, <1>3, <1>4, <1>5, <1>6, EventStep
<1>8. Removes(d)
  BY <1>1, <1>4, <1>5, <1>6, <1>7 DEF Removes
<1>9. QED
  BY <1>7, <1>8

\* The requests, the freezes and the raids do not touch a document, except that a
\* burned player's folder is emptied.
LEMMA WorldKind ==
    ASSUME NEW G, Strangers(G), TypesWith(G),
           \/ \E T \in SUBSET Tag, b \in Bounty : NpcSpawn(T, b)
           \/ \E A : AgeNpcs(A)
           \/ \E t \in Tag : Leak(t) \/ Recover(t)
    PROVE  TypesWith(G)' /\ Quiet
<1>1. /\ HandlersStay /\ UNCHANGED <<users_dat, master, sandbox, ev, g_doc_id_counter>>
  BY DEF NpcSpawn, AgeNpcs, Leak, Recover, store
<1>2. g_npc_id_counter \in Nat
  BY DEF TypesWith
<1>3. g_npc_id_counter' \in Nat
  <2>1. g_npc_id_counter' = g_npc_id_counter \/ g_npc_id_counter' = g_npc_id_counter + 1
    BY DEF NpcSpawn, AgeNpcs, Leak, Recover
  <2>2. QED
    BY <1>2, <2>1
<1>4. TypeOK' /\ BoardSame
  <2>1. ASSUME NEW T \in SUBSET Tag, NEW b \in Bounty, NpcSpawn(T, b)
        PROVE  TypeOK' /\ BoardSame
    <3>1. g_npc_id_counter' \in NpcId
      <4>1. NPC_LIMIT \in Nat /\ 1 .. NPC_LIMIT \subseteq NpcId
        BY TradeAssumption
      <4>2. g_npc_id_counter' \in 1 .. NPC_LIMIT
        BY <1>2, <2>1, <4>1 DEF NpcSpawn
      <4>3. QED
        BY <4>1, <4>2
    <3>2. npc_add(g_npc_id_counter', T, b) \/ UNCHANGED vars
      BY <2>1 DEF NpcSpawn
    <3>3. PICK n \in NpcId : n = g_npc_id_counter'
      BY <3>1
    <3>4. CASE npc_add(n, T, b)
      BY <3>4, NpcEffect DEF TypesWith
    <3>5. CASE UNCHANGED vars
      BY <3>5, BoardStays DEF TypesWith
    <3>6. QED
      BY <3>2, <3>3, <3>4, <3>5
  <2>2. ASSUME NEW A, AgeNpcs(A)
        PROVE  TypeOK' /\ BoardSame
    BY <2>2, NpcEffect DEF AgeNpcs, TypesWith
  <2>3. ASSUME NEW t \in Tag, Leak(t) \/ Recover(t)
        PROVE  TypeOK' /\ BoardSame
    BY <2>3, FrostEffect DEF Leak, Recover, TypesWith
  <2>4. QED
    BY <2>1, <2>2, <2>3
<1>5. /\ master' \in Table(DocId, SUBSET Tag) /\ ev' \in EventState \cup G
      /\ g_doc_id_counter' \in Nat
  BY <1>1 DEF TypesWith
<1>6. TypesWith(G)' /\ EventOnly
  BY <1>1, <1>3, <1>4, <1>5, EventStep
<1>7. QED
  BY <1>1, <1>4, <1>6 DEF Quiet, EventOnly

LEMMA RaidKind ==
    ASSUME NEW G, Strangers(G), TypesWith(G), (\E u \in User : RaidBurn(u)) \/ RaidPurge
    PROVE  TypesWith(G)' /\ Quiet
<1>1. UNCHANGED <<vars, master, th, ev, g_doc_id_counter, g_npc_id_counter, faults, lost>>
  BY DEF RaidBurn, RaidPurge, userdb_burn_at, userdb_update_at, sandbox_purge_user, counters
<1>2. TypeOK' /\ BoardSame
  BY <1>1, BoardStays DEF TypesWith
<1>3. ThreadsSame
  BY <1>1 DEF ThreadsSame, ThreadSame, Passes
<1>4. ASSUME NEW u \in User, RaidBurn(u)
      PROVE  TypesWith(G)' /\ Quiet
  <2>1. /\ users_dat' = [users_dat EXCEPT ![u] = BURNED] /\ UNCHANGED sandbox
        /\ raid' = [pc |-> "purge", key |-> u]
    BY <1>4 DEF RaidBurn, userdb_burn_at, userdb_update_at
  <2>2. users_dat' \in [User -> Int] /\ raid' \in [pc : {"purge"}, key : User]
    BY <2>1 DEF TypesWith, BURNED
  <2>3. TypesWith(G)'
    BY <1>1, <1>2, <2>1, <2>2 DEF TypesWith
  <2>4. Quiet
    BY <1>1, <1>2, <1>3, <2>1 DEF Quiet, FoldersLess
  <2>5. QED
    BY <2>3, <2>4
<1>5. ASSUME RaidPurge
      PROVE  TypesWith(G)' /\ Quiet
  <2>1. /\ raid.pc = "purge" /\ UNCHANGED users_dat /\ raid' = [pc |-> "idle"]
        /\ sandbox' = [sandbox EXCEPT ![raid.key]
                          = Vacate(sandbox[raid.key], DOMAIN sandbox[raid.key])]
    BY <1>5 DEF RaidPurge, sandbox_purge_user
  <2>2. raid.key \in User
    BY <2>1 DEF TypesWith
  <2>3. sandbox' \in [User -> Table(DocId, SUBSET Tag)] /\ FoldersLess
    BY <2>1, <2>2, FolderCut DEF TypesWith
  <2>4. raid' \in [pc : {"idle"}]
    BY <2>1
  <2>5. TypesWith(G)'
    BY <1>1, <1>2, <2>1, <2>3, <2>4 DEF TypesWith
  <2>6. Quiet
    BY <1>1, <1>2, <1>3, <2>3 DEF Quiet
  <2>7. QED
    BY <2>5, <2>6
<1>6. QED
  BY <1>4, <1>5

LEMMA StutterKind ==
    ASSUME NEW G, Strangers(G), TypesWith(G), UNCHANGED tvars
    PROVE  TypesWith(G)' /\ Quiet
<1>1. UNCHANGED <<vars, users_dat, master, sandbox, th, ev, raid, g_doc_id_counter,
                  g_npc_id_counter, faults, lost>>
  BY DEF tvars, store, counters
<1>2. TypeOK' /\ BoardSame
  BY <1>1, BoardStays DEF TypesWith
<1>3. TypesWith(G)'
  BY <1>1, <1>2 DEF TypesWith
<1>4. Quiet
  BY <1>1, <1>2 DEF Quiet, FoldersLess, ThreadsSame, ThreadSame, Passes
<1>5. QED
  BY <1>3, <1>4

\* Every step keeps the types and is of one of the kinds.
LEMMA StepKindsWith ==
    ASSUME NEW G, Strangers(G), TypesWith(G), [TradeNext]_tvars
    PROVE  TypesWith(G)' /\ Kinds
<1>1. ASSUME NEW u \in User, Request(u)
      PROVE  TypesWith(G)' /\ Kinds
  BY <1>1, BuyFindKind, HandleDisposeKind, SellFindKind DEF Request, Kinds
<1>2. ASSUME NEW u \in User, Handler(u)
      PROVE  TypesWith(G)' /\ Kinds
  <2>1. CASE BuyTake(u) \/ BuyMove(u) \/ BuyUndo(u)
    BY <2>1, BuyTakeKind, BuyMoveKind, BuyUndoKind DEF Kinds
  <2>2. CASE BuyCount(u) \/ BuyMoney(u) \/ BuyPay(u) \/ BustMoney(u) \/ BustCount(u)
                \/ BustBurn(u) \/ SellPay(u)
    BY <2>2, BuyCountKind, BuyMoneyKind, BustKind, PayKind DEF Kinds
  <2>3. CASE SellCheck(u) \/ SellTake(u) \/ SellDispose(u) \/ SellMoney(u)
    BY <2>3, SellCheckKind, SellTakeKind, SellDisposeKind, SellMoneyKind DEF Kinds
  <2>4. QED
    BY <1>2, <2>1, <2>2, <2>3 DEF Handler
<1>3. CASE Spawner
  BY <1>3, SpawnWriteKind, SpawnAddKind, RemoveFileKind DEF Spawner, Kinds
<1>4. CASE World
  <2>1. ASSUME NEW T \in TagMask, NEW p \in Price, SpawnChoose(T, p)
        PROVE  TypesWith(G)' /\ Kinds
    BY <2>1, SpawnChooseKind DEF TagMask, Kinds
  <2>2. ASSUME NEW A \in SUBSET MarketIndex, AgeMarket(A)
        PROVE  TypesWith(G)' /\ Kinds
    BY <2>2, AgeMarketKind DEF Kinds
  <2>3. CASE \/ \E T \in SUBSET Tag, b \in Bounty : NpcSpawn(T, b)
             \/ \E A : AgeNpcs(A)
             \/ \E t \in Tag : Leak(t) \/ Recover(t)
    BY <2>3, WorldKind DEF Kinds
  <2>4. QED
    BY <1>4, <2>1, <2>2, <2>3 DEF World, Traffic, TagMask
<1>5. CASE (\E u \in User : RaidBurn(u)) \/ RaidPurge
  BY <1>5, RaidKind DEF Kinds
<1>6. CASE UNCHANGED tvars
  BY <1>6, StutterKind DEF Kinds
<1>7. QED
  BY <1>1, <1>2, <1>3, <1>4, <1>5, <1>6 DEF TradeNext

LEMMA PlainTypes == Strangers({}) /\ (TypesWith({}) <=> TradeTypeOK)
BY DEF Strangers, TypesWith, TradeTypeOK

\* In Trade itself there are no others.
LEMMA StepKinds ==
    ASSUME TradeTypeOK, [TradeNext]_tvars
    PROVE  TradeTypeOK' /\ Kinds
<1>1. Strangers({}) /\ TypesWith({})
  BY PlainTypes
<1>2. TypesWith({})' /\ Kinds
  BY <1>1, StepKindsWith
<1>3. TypesWith({})' <=> TradeTypeOK'
  BY DEF TypesWith, TradeTypeOK
<1>4. QED
  BY <1>2, <1>3

-----------------------------------------------------------------------------
\* The types.

LEMMA SeedsTyped ==
    /\ DOMAIN SeedDocs = 1 .. Len(SeedDocs) /\ Len(SeedDocs) \in Nat
    /\ \A k \in DOMAIN SeedDocs : SeedDocs[k] \in OfferShown
    /\ DOMAIN SeedNpcs = 1 .. Len(SeedNpcs) /\ Len(SeedNpcs) \in Nat
    /\ \A k \in DOMAIN SeedNpcs : SeedNpcs[k] \in NPCSlot
<1>1. SeedDocs \in Seq(OfferShown) /\ SeedNpcs \in Seq(NPCSlot)
  BY TradeAssumption DEF OfferShown
<1>2. QED
  BY <1>1, LenProperties, ElementOfSeq

\* main seeds the board in the slots from 0 on, and writes one file per document.
LEMMA SeededBoard ==
    ASSUME TradeInit
    PROVE  /\ DOMAIN g_market = 0 .. (Len(SeedDocs) - 1)
           /\ \A i \in DOMAIN g_market :
                 /\ i + 1 \in DOMAIN SeedDocs /\ g_market[i] \in MarketSlot
                 /\ g_market[i].doc_id = SeedDocs[i + 1].doc_id
                 /\ g_market[i].tags = SeedDocs[i + 1].tags
           /\ TypeOK
<1>1. g_market = [i \in 0 .. (Len(SeedDocs) - 1) |->
                     [doc_id |-> SeedDocs[i + 1].doc_id, tags |-> SeedDocs[i + 1].tags,
                      base_price |-> SeedDocs[i + 1].base_price, is_frozen |-> FALSE]]
  BY DEF TradeInit
<1>2. ASSUME NEW i \in 0 .. (Len(SeedDocs) - 1)
      PROVE  i + 1 \in DOMAIN SeedDocs /\ SeedDocs[i + 1] \in OfferShown
  BY SeedsTyped
<1>3. ASSUME NEW i \in 0 .. (Len(SeedDocs) - 1)
      PROVE  /\ i + 1 \in DOMAIN SeedDocs /\ g_market[i] \in MarketSlot
             /\ g_market[i].doc_id = SeedDocs[i + 1].doc_id
             /\ g_market[i].tags = SeedDocs[i + 1].tags
  BY <1>1, <1>2 DEF OfferShown, MarketSlot
<1>4. 0 .. (Len(SeedDocs) - 1) \subseteq MarketIndex
  BY SeedsTyped, SlotsAssumption, TradeAssumption DEF MarketIndex
<1>5. g_market \in Table(MarketIndex, MarketSlot)
  BY <1>1, <1>3, <1>4, TableIntro
<1>6. g_npc \in Table(NpcIndex, NPCSlot)
  <2>1. g_npc = [i \in 0 .. (Len(SeedNpcs) - 1) |-> SeedNpcs[i + 1]]
    BY DEF TradeInit
  <2>2. ASSUME NEW i \in 0 .. (Len(SeedNpcs) - 1)
        PROVE  SeedNpcs[i + 1] \in NPCSlot
    BY SeedsTyped
  <2>3. 0 .. (Len(SeedNpcs) - 1) \subseteq NpcIndex
    BY SeedsTyped, SlotsAssumption, TradeAssumption DEF NpcIndex
  <2>4. QED
    BY <2>1, <2>2, <2>3, TableIntro
<1>7. QED
  BY <1>1, <1>3, <1>5, <1>6 DEF TypeOK, TradeInit

\* A seed's file has the tags of the first seed of that id.
LEMMA SeededFiles ==
    ASSUME TradeInit
    PROVE  /\ DOMAIN master = {SeedDocs[k].doc_id : k \in DOMAIN SeedDocs}
           /\ master \in Table(DocId, SUBSET Tag)
           /\ \A d \in DOMAIN master : \E k \in DOMAIN SeedDocs :
                 SeedDocs[k].doc_id = d /\ master[d] = SeedDocs[k].tags
<1> DEFINE D == {SeedDocs[k].doc_id : k \in DOMAIN SeedDocs}
           K(d) == CHOOSE k \in DOMAIN SeedDocs : SeedDocs[k].doc_id = d
<1>1. master = [d \in D |-> SeedDocs[K(d)].tags]
  BY DEF TradeInit
<1>2. ASSUME NEW d \in D
      PROVE  K(d) \in DOMAIN SeedDocs /\ SeedDocs[K(d)].doc_id = d
  OBVIOUS
<1> HIDE DEF K
<1>3. ASSUME NEW d \in D
      PROVE  d \in DocId /\ SeedDocs[K(d)].tags \in SUBSET Tag
  BY <1>2, SeedsTyped DEF OfferShown
<1>4. /\ DOMAIN master = D
      /\ \A d \in D : /\ SeedDocs[K(d)].doc_id = d /\ master[d] = SeedDocs[K(d)].tags
                      /\ K(d) \in DOMAIN SeedDocs
  BY <1>1, <1>2
<1>5. master \in Table(DocId, SUBSET Tag)
  <2> HIDE DEF D
  <2>1. D \subseteq DocId /\ \A d \in DOMAIN master : master[d] \in SUBSET Tag
    BY <1>3, <1>4
  <2>2. QED
    BY <1>1, <1>4, <2>1, TableIntro
<1>6. QED
  BY <1>4, <1>5

LEMMA TradeStart ==
    ASSUME TradeInit
    PROVE  TradeTypeOK
<1>1. TypeOK
  BY SeededBoard
<1>2. master \in Table(DocId, SUBSET Tag)
  BY SeededFiles
<1>3. /\ users_dat = [u \in User |-> INITIAL_MONEY] /\ sandbox = [u \in User |-> [d \in {} |-> {}]]
      /\ th = [u \in User |-> [pc |-> "ready"]] /\ ev = [pc |-> "idle"] /\ raid = [pc |-> "idle"]
      /\ g_doc_id_counter = 0 /\ g_npc_id_counter = 0 /\ faults = 0 /\ lost = {}
  BY DEF TradeInit
<1>4. users_dat \in [User -> Int]
  <2>1. INITIAL_MONEY \in Int
    BY TradeAssumption
  <2>2. QED
    BY <1>3, <2>1
<1>5. sandbox \in [User -> Table(DocId, SUBSET Tag)]
  <2>1. [d \in {} |-> {}] \in Table(DocId, SUBSET Tag)
    BY EmptyType
  <2>2. QED
    BY <1>3, <2>1
<1>6. th \in [User -> HandlerState]
  <2>1. [pc |-> "ready"] \in HandlerState
    BY ReadyIdle DEF Ready
  <2>2. QED
    BY <1>3, <2>1
<1>7. ev \in EventState
  BY <1>3, EventForms
<1>8. /\ raid \in [pc : {"idle"}] /\ lost \subseteq DocId
      /\ {g_doc_id_counter, g_npc_id_counter, faults} \subseteq Nat
  BY <1>3
<1>9. QED
  BY <1>1, <1>2, <1>4, <1>5, <1>6, <1>7, <1>8 DEF TradeTypeOK

\* Whatever is traded, spawned, aged, frozen, thawed or burned, in whatever order
\* the threads come to their turn, the board, the files, the records and what each
\* thread keeps between two calls have their types.
THEOREM TradeTypeCorrect == TradeSpec => []TradeTypeOK
<1>1. TradeTypeOK /\ [TradeNext]_tvars => TradeTypeOK'
  BY StepKinds
<1>2. QED
  BY <1>1, TradeStart, PTL DEF TradeSpec

-----------------------------------------------------------------------------
\* What the kinds of step do to one document.

LEMMA SameSlots ==
    ASSUME BoardSame, NEW d
    PROVE  SlotsOf(d)' = SlotsOf(d)
BY DEF BoardSame, SameOffer, SlotsOf

LEMMA LessSlots ==
    ASSUME NEW S, BoardLess(S), NEW d
    PROVE  SlotsOf(d)' = SlotsOf(d) \ S
BY DEF BoardLess, SameOffer, SlotsOf

LEMMA MoreSlots ==
    ASSUME NEW d, NEW T, NEW p, BoardMore(d, T, p)
    PROVE  \E i : /\ i \notin DOMAIN g_market
                  /\ SlotsOf(d)' = SlotsOf(d) \cup {i}
                  /\ \A e : e # d => SlotsOf(e)' = SlotsOf(e)
<1>1. PICK i : /\ i \notin DOMAIN g_market
               /\ DOMAIN g_market' = DOMAIN g_market \cup {i}
               /\ \A j \in DOMAIN g_market : SameOffer(j)
               /\ g_market'[i].doc_id = d
  BY DEF BoardMore
<1>2. SlotsOf(d)' = SlotsOf(d) \cup {i}
  BY <1>1 DEF SlotsOf, SameOffer
<1>3. ASSUME NEW e, e # d
      PROVE  SlotsOf(e)' = SlotsOf(e)
  BY <1>1, <1>3 DEF SlotsOf, SameOffer
<1>4. QED
  BY <1>1, <1>2, <1>3

LEMMA SamePassage ==
    ASSUME NEW u, ThreadSame(u), NEW d
    PROVE  InPassage(u, d)' <=> InPassage(u, d)
BY DEF ThreadSame, Passes, Passing, InPassage

\* A file of data/master is on offer or has somebody who will see to it, unless its
\* rollback found the board full.
InHands(d) ==
    \/ SlotsOf(d) # {}
    \/ WithSpawner(d)
    \/ \E u \in User : InPassage(u, d)
    \/ d \in lost

LookedAfter(d) == d \in DOMAIN master => InHands(d)

LEMMA LookedAfterMeans ==
    (\A d : LookedAfter(d)) => OnlyLostForgotten
<1>1. ASSUME NEW d
      PROVE  d \in OnBoard <=> SlotsOf(d) # {}
  BY DEF OnBoard, SlotsOf
<1>2. QED
  BY <1>1 DEF LookedAfter, InHands, OnlyLostForgotten, Forgotten

LEMMA LookedAfterStart ==
    ASSUME TradeInit, NEW d
    PROVE  LookedAfter(d)
<1>1. SUFFICES ASSUME d \in DOMAIN master
               PROVE  \E i \in DOMAIN g_market : g_market[i].doc_id = d
  BY DEF LookedAfter, InHands, SlotsOf
<1>2. PICK k \in DOMAIN SeedDocs : SeedDocs[k].doc_id = d
  BY <1>1, SeededFiles
<1>3. k \in 1 .. Len(SeedDocs) /\ Len(SeedDocs) \in Nat
  BY SeedsTyped
<1>4. k - 1 \in 0 .. (Len(SeedDocs) - 1) /\ (k - 1) + 1 = k
  BY <1>3
<1>5. QED
  BY <1>2, <1>4, SeededBoard

LEMMA LookedAfterStep ==
    ASSUME NEW d, LookedAfter(d), Kinds
    PROVE  LookedAfter(d)'
<1> SUFFICES ASSUME d \in DOMAIN master'
             PROVE  InHands(d)'
  BY DEF LookedAfter, InHands
<1>1. CASE Quiet
  <2>1. SlotsOf(d)' = SlotsOf(d) /\ \A u \in User : InPassage(u, d)' <=> InPassage(u, d)
    BY <1>1, SameSlots, SamePassage DEF Quiet, ThreadsSame
  <2>2. WithSpawner(d)' <=> WithSpawner(d)
    BY <1>1 DEF Quiet, WithSpawner
  <2>3. QED
    BY <1>1, <2>1, <2>2 DEF LookedAfter, InHands, Quiet
<1>2. ASSUME NEW u \in User, NEW i, Takes(u, i)
      PROVE  InHands(d)'
  <2>1. /\ SlotsOf(d)' = SlotsOf(d) \ {i}
        /\ \A v \in User \ {u} : InPassage(v, d)' <=> InPassage(v, d)
    BY <1>2, LessSlots, SamePassage DEF Takes, OthersSame
  <2>2. /\ ~ InPassage(u, d)
        /\ g_market[i].doc_id = d => InPassage(u, d)'
    BY <1>2 DEF Takes, Passes, Passing, InPassage
  <2>3. i \in SlotsOf(d) => InPassage(u, d)'
    BY <2>2 DEF SlotsOf
  <2>4. (WithSpawner(d)' <=> WithSpawner(d)) /\ d \in DOMAIN master /\ lost' = lost
    BY <1>2 DEF Takes, WithSpawner
  <2>5. QED
    BY <2>1, <2>2, <2>3, <2>4 DEF LookedAfter, InHands
<1>3. ASSUME NEW u \in User, Moves(u)
      PROVE  InHands(d)'
  <2>1. /\ SlotsOf(d)' = SlotsOf(d)
        /\ \A v \in User \ {u} : InPassage(v, d)' <=> InPassage(v, d)
    BY <1>3, SameSlots, SamePassage DEF Moves, OthersSame
  <2>2. d \in DOMAIN master /\ ~ InPassage(u, d)
    BY <1>3 DEF Moves, MasterLess, InPassage
  <2>3. (WithSpawner(d)' <=> WithSpawner(d)) /\ lost' = lost
    BY <1>3 DEF Moves, WithSpawner
  <2>4. QED
    BY <2>1, <2>2, <2>3 DEF LookedAfter, InHands
<1>4. ASSUME NEW u \in User, Relists(u)
      PROVE  InHands(d)'
  <2>1. PICK c, T, p : c = th[u].slot.doc_id /\ BoardMore(c, T, p)
    BY <1>4 DEF Relists
  <2>2. PICK j : /\ SlotsOf(c)' = SlotsOf(c) \cup {j}
                 /\ \A e : e # c => SlotsOf(e)' = SlotsOf(e)
    BY <2>1, MoreSlots
  <2>3. /\ SlotsOf(d) # {} => SlotsOf(d)' # {}
        /\ InPassage(u, d) => SlotsOf(d)' # {}
    BY <2>1, <2>2 DEF InPassage
  <2>4. \A v \in User \ {u} : InPassage(v, d)' <=> InPassage(v, d)
    BY <1>4, SamePassage DEF Relists, OthersSame
  <2>5. (WithSpawner(d)' <=> WithSpawner(d)) /\ d \in DOMAIN master /\ lost' = lost
    BY <1>4 DEF Relists, WithSpawner
  <2>6. QED
    BY <2>3, <2>4, <2>5 DEF LookedAfter, InHands
<1>5. ASSUME NEW u \in User, Loses(u)
      PROVE  InHands(d)'
  <2>1. /\ SlotsOf(d)' = SlotsOf(d)
        /\ \A v \in User \ {u} : InPassage(v, d)' <=> InPassage(v, d)
    BY <1>5, SameSlots, SamePassage DEF Loses, OthersSame
  <2>2. /\ InPassage(u, d) => d \in lost'
        /\ d \in lost => d \in lost'
    BY <1>5 DEF Loses, InPassage
  <2>3. (WithSpawner(d)' <=> WithSpawner(d)) /\ d \in DOMAIN master
    BY <1>5 DEF Loses, WithSpawner
  <2>4. QED
    BY <2>1, <2>2, <2>3 DEF LookedAfter, InHands
<1>6. ASSUME EventOnly
      PROVE  (\A v \in User : InPassage(v, d)' <=> InPassage(v, d)) /\ lost' = lost
  BY <1>6, SamePassage DEF EventOnly, ThreadsSame
<1>7. CASE Chooses \/ Writes \/ HandsBack
  <2>1. EventOnly /\ SlotsOf(d)' = SlotsOf(d)
    BY <1>7, SameSlots DEF Chooses, Writes, HandsBack
  <2>2. WithSpawner(d) => WithSpawner(d)'
    BY <1>7 DEF Chooses, Writes, HandsBack, WithSpawner
  <2>3. d \in DOMAIN master \/ WithSpawner(d)'
    BY <1>7 DEF Chooses, Writes, HandsBack, WithSpawner
  <2>4. QED
    BY <1>6, <2>1, <2>2, <2>3 DEF LookedAfter, InHands
<1>8. CASE Lists
  <2>1. PICK c, T, p : c = ev.doc_id /\ BoardMore(c, T, p) /\ d \in DOMAIN master
    BY <1>8 DEF Lists
  <2>2. PICK j : /\ SlotsOf(c)' = SlotsOf(c) \cup {j}
                 /\ \A e : e # c => SlotsOf(e)' = SlotsOf(e)
    BY <2>1, MoreSlots
  <2>3. WithSpawner(d) => d = ev.doc_id
    BY <1>8 DEF Lists, WithSpawner
  <2>4. SlotsOf(d) # {} \/ WithSpawner(d) => SlotsOf(d)' # {}
    BY <2>1, <2>2, <2>3
  <2>5. EventOnly
    BY <1>8 DEF Lists
  <2>6. QED
    BY <1>6, <2>1, <2>4, <2>5 DEF LookedAfter, InHands
<1>9. ASSUME NEW S, Ages(S)
      PROVE  InHands(d)'
  <2>1. SlotsOf(d)' = SlotsOf(d) \ S /\ EventOnly /\ d \in DOMAIN master
    BY <1>9, LessSlots DEF Ages
  <2>2. ~ WithSpawner(d) /\ (SlotsOf(d) \cap S # {} => WithSpawner(d)')
    BY <1>9 DEF Ages, WithSpawner, SlotsOf
  <2>3. QED
    BY <1>6, <2>1, <2>2 DEF LookedAfter, InHands
<1>10. ASSUME NEW e, Removes(e)
       PROVE  InHands(d)'
  <2>1. SlotsOf(d)' = SlotsOf(d) /\ EventOnly /\ d \in DOMAIN master /\ d # e
    BY <1>10, SameSlots DEF Removes, MasterLess
  <2>2. WithSpawner(d) => WithSpawner(d)'
    BY <1>10, <2>1 DEF Removes, WithSpawner
  <2>3. QED
    BY <1>6, <2>1, <2>2 DEF LookedAfter, InHands
<1>11. QED
  BY <1>1, <1>2, <1>3, <1>4, <1>5, <1>7, <1>8, <1>9, <1>10 DEF Kinds

\* For any number of players, slots, spawns and failing renames: a file is forgotten
\* in data/master (neither on offer nor in the hands of a thread that will move, list
\* or remove it) only where handle_buy rolled its purchase back on a full board and
\* dropped the result of market_add.
THEOREM ForgottenOnlyByRollback == TradeSpec => []OnlyLostForgotten
<1> DEFINE Inv == TradeTypeOK /\ \A d : LookedAfter(d)
<1>1. TradeInit => Inv
  BY TradeStart, LookedAfterStart
<1>2. Inv /\ [TradeNext]_tvars => Inv'
  <2>1. SUFFICES ASSUME Inv, [TradeNext]_tvars
                 PROVE  Inv'
    OBVIOUS
  <2>2. TradeTypeOK' /\ Kinds
    BY <2>1, StepKinds
  <2>3. ASSUME NEW d
        PROVE  LookedAfter(d)'
    BY <2>1, <2>2, LookedAfterStep
  <2>4. QED
    BY <2>2, <2>3
<1>3. Inv => OnlyLostForgotten
  BY LookedAfterMeans
<1>4. QED
  BY <1>1, <1>2, <1>3, PTL DEF TradeSpec

-----------------------------------------------------------------------------
\* One custodian.

\* Nobody gets d in this step.
Shrinks(d) ==
    /\ SlotsOf(d)' \subseteq SlotsOf(d)
    /\ \A u \in User : InPassage(u, d)' => InPassage(u, d)
    /\ \A u \in User : sandbox_has(u, d)' => sandbox_has(u, d)
    /\ WithSpawner(d)' => WithSpawner(d)

LEMMA ShrinkKeeps ==
    ASSUME NEW d, Sole(d), Fresh(d), Shrinks(d), SPAWN_LIMIT \in Nat,
           g_doc_id_counter \in Nat,
           g_doc_id_counter' \in {g_doc_id_counter, g_doc_id_counter + 1}
    PROVE  Sole(d)' /\ Fresh(d)'
<1>1. Sole(d)'
  BY DEF Sole, Shrinks
<1>2. \A n, m, x \in Nat : \A c : m \in {n, n + 1} /\ c \in (m + 1) .. x => c \in (n + 1) .. x
  OBVIOUS
<1>3. g_doc_id_counter' \in Nat
  OBVIOUS
<1>4. d \in (g_doc_id_counter' + 1) .. SPAWN_LIMIT => d \in (g_doc_id_counter + 1) .. SPAWN_LIMIT
  BY <1>2, <1>3
<1>5. Fresh(d)'
  BY <1>4 DEF Fresh, Shrinks
<1>6. QED
  BY <1>1, <1>5

\* A document that somebody has, and has alone, changes hands.
LEMMA HandOver ==
    ASSUME NEW d, Fresh(d), UNCHANGED g_doc_id_counter,
           \/ SlotsOf(d) # {} \/ WithSpawner(d) \/ \E u \in User : InPassage(u, d)
    PROVE  Fresh(d)'
BY DEF Fresh

LEMMA FolderShrinks ==
    ASSUME FoldersLess, NEW d, NEW u \in User, sandbox_has(u, d)'
    PROVE  sandbox_has(u, d)
BY DEF FoldersLess, sandbox_has

LEMMA HandlerCustody ==
    ASSUME g_doc_id_counter \in Nat, NEW d, Sole(d), Fresh(d), NEW u \in User,
           (\E i : Takes(u, i)) \/ Moves(u) \/ Relists(u) \/ Loses(u)
    PROVE  Sole(d)' /\ Fresh(d)'
<1>1. g_doc_id_counter \in Nat /\ SPAWN_LIMIT \in Nat
  BY TradeAssumption
<1>2. /\ UNCHANGED g_doc_id_counter
      /\ WithSpawner(d)' <=> WithSpawner(d)
      /\ \A v \in User \ {u} : InPassage(v, d)' <=> InPassage(v, d)
  BY SamePassage DEF Takes, Moves, Relists, Loses, WithSpawner, OthersSame
<1>3. ASSUME NEW i, Takes(u, i)
      PROVE  Sole(d)' /\ Fresh(d)'
  <2>1. /\ SlotsOf(d)' = SlotsOf(d) \ {i}
        /\ \A v \in User : sandbox_has(v, d)' => sandbox_has(v, d)
        /\ ~ InPassage(u, d)
        /\ InPassage(u, d)' => i \in SlotsOf(d)
    BY <1>3, LessSlots, FolderShrinks DEF Takes, InPassage, Passes, Passing, SlotsOf
  <2>2. CASE i \in SlotsOf(d)
    <3>1. /\ SlotsOf(d)' = {} /\ ~ WithSpawner(d)'
          /\ \A v \in User : ~ sandbox_has(v, d)'
          /\ \A v \in User \ {u} : ~ InPassage(v, d)'
      BY <1>2, <2>1, <2>2 DEF Sole
    <3>2. Sole(d)'
      BY <3>1 DEF Sole
    <3>3. QED
      BY <1>2, <2>2, <3>2, HandOver
  <2>3. CASE i \notin SlotsOf(d)
    <3>1. Shrinks(d)
      BY <1>2, <2>1, <2>3 DEF Shrinks
    <3>2. QED
      BY <1>1, <1>2, <3>1, ShrinkKeeps
  <2>4. QED
    BY <2>2, <2>3
<1>4. CASE Moves(u)
  <2>1. /\ SlotsOf(d)' = SlotsOf(d)
        /\ \A v \in User \ {u} : sandbox_has(v, d)' <=> sandbox_has(v, d)
        /\ ~ InPassage(u, d)'
    BY <1>4, SameSlots DEF Moves, sandbox_has, InPassage, Passes, Passing
  <2>2. sandbox_has(u, d)' => sandbox_has(u, d) \/ InPassage(u, d)
    BY <1>4 DEF Moves, sandbox_has, InPassage, Passes, Passing
  <2>3. CASE InPassage(u, d)
    <3>1. /\ SlotsOf(d)' = {} /\ ~ WithSpawner(d)'
          /\ \A v \in User \ {u} : ~ sandbox_has(v, d)'
          /\ \A v \in User : ~ InPassage(v, d)'
      BY <1>2, <2>1, <2>3 DEF Sole
    <3>2. Sole(d)'
      BY <3>1 DEF Sole
    <3>3. QED
      BY <1>2, <2>3, <3>2, HandOver
  <2>4. CASE ~ InPassage(u, d)
    <3>1. Shrinks(d)
      BY <1>2, <2>1, <2>2, <2>4 DEF Shrinks
    <3>2. QED
      BY <1>1, <1>2, <3>1, ShrinkKeeps
  <2>5. QED
    BY <2>3, <2>4
<1>5. CASE Relists(u)
  <2>1. /\ ~ InPassage(u, d)'
        /\ \A v \in User : sandbox_has(v, d)' => sandbox_has(v, d)
    BY <1>5, FolderShrinks DEF Relists, InPassage, Passes, Passing
  <2>2. PICK c, T, p : c = th[u].slot.doc_id /\ BoardMore(c, T, p)
    BY <1>5 DEF Relists
  <2>3. PICK j : /\ SlotsOf(c)' = SlotsOf(c) \cup {j}
                 /\ \A e : e # c => SlotsOf(e)' = SlotsOf(e)
    BY <2>2, MoreSlots
  <2>4. InPassage(u, d) <=> d = c
    BY <1>5, <2>2 DEF Relists, InPassage, Passes, Passing
  <2>5. CASE d = c
    <3>1. /\ SlotsOf(d)' = {j} /\ ~ WithSpawner(d)'
          /\ \A v \in User : ~ sandbox_has(v, d)' /\ ~ InPassage(v, d)'
      BY <1>2, <2>1, <2>3, <2>4, <2>5 DEF Sole
    <3>2. Sole(d)'
      BY <3>1 DEF Sole
    <3>3. QED
      BY <1>2, <2>4, <2>5, <3>2, HandOver
  <2>6. CASE d # c
    <3>1. Shrinks(d)
      BY <1>2, <2>1, <2>3, <2>6 DEF Shrinks
    <3>2. QED
      BY <1>1, <1>2, <3>1, ShrinkKeeps
  <2>7. QED
    BY <2>5, <2>6
<1>6. CASE Loses(u)
  <2>1. /\ SlotsOf(d)' = SlotsOf(d) /\ ~ InPassage(u, d)'
        /\ \A v \in User : sandbox_has(v, d)' => sandbox_has(v, d)
    BY <1>6, SameSlots, FolderShrinks DEF Loses, InPassage, Passes, Passing
  <2>2. Shrinks(d)
    BY <1>2, <2>1 DEF Shrinks
  <2>3. QED
    BY <1>1, <1>2, <2>2, ShrinkKeeps
<1>7. QED
  BY <1>3, <1>4, <1>5, <1>6

LEMMA EventCustody ==
    ASSUME g_doc_id_counter \in Nat, NEW d, Sole(d), Fresh(d),
           \/ Chooses \/ Writes \/ Lists \/ HandsBack
           \/ (\E S : Ages(S)) \/ \E e : Removes(e)
    PROVE  Sole(d)' /\ Fresh(d)'
<1>1. g_doc_id_counter \in Nat /\ SPAWN_LIMIT \in Nat
  BY TradeAssumption
<1>2. EventOnly
  BY DEF Chooses, Writes, Lists, HandsBack, Ages, Removes
<1>3. /\ \A v \in User : InPassage(v, d)' <=> InPassage(v, d)
      /\ \A v \in User : sandbox_has(v, d)' => sandbox_has(v, d)
  BY <1>2, SamePassage, FolderShrinks DEF EventOnly, ThreadsSame
<1>4. CASE Chooses
  <2>1. /\ SlotsOf(d)' = SlotsOf(d) /\ g_doc_id_counter' = g_doc_id_counter + 1
        /\ g_doc_id_counter < SPAWN_LIMIT
        /\ WithSpawner(d)' <=> d = g_doc_id_counter + 1
    BY <1>4, SameSlots DEF Chooses, WithSpawner
  <2>2. CASE d = g_doc_id_counter + 1
    <3>1. d \in (g_doc_id_counter + 1) .. SPAWN_LIMIT
      BY <1>1, <2>1, <2>2
    <3>2. /\ SlotsOf(d)' = {}
          /\ \A v \in User : ~ sandbox_has(v, d)' /\ ~ InPassage(v, d)'
      BY <1>3, <2>1, <3>1 DEF Fresh
    <3>3. Sole(d)'
      BY <3>2 DEF Sole
    <3>4. d \notin ((g_doc_id_counter + 1) .. SPAWN_LIMIT)'
      BY <1>1, <2>1, <2>2
    <3>5. QED
      BY <3>3, <3>4 DEF Fresh
  <2>3. CASE d # g_doc_id_counter + 1
    <3>1. Shrinks(d)
      BY <1>3, <2>1, <2>3 DEF Shrinks
    <3>2. QED
      BY <1>1, <2>1, <3>1, ShrinkKeeps
  <2>4. QED
    BY <2>2, <2>3
<1>5. CASE Writes \/ HandsBack \/ \E e : Removes(e)
  <2>1. SlotsOf(d)' = SlotsOf(d) /\ UNCHANGED g_doc_id_counter
    BY <1>5, SameSlots DEF Writes, HandsBack, Removes
  <2>2. WithSpawner(d)' => WithSpawner(d)
    BY <1>5 DEF Writes, HandsBack, Removes, WithSpawner
  <2>3. Shrinks(d)
    BY <1>3, <2>1, <2>2 DEF Shrinks
  <2>4. QED
    BY <1>1, <2>1, <2>3, ShrinkKeeps
<1>6. CASE Lists
  <2>1. PICK c, T, p : c = ev.doc_id /\ BoardMore(c, T, p) /\ UNCHANGED g_doc_id_counter
    BY <1>6 DEF Lists
  <2>2. PICK j : /\ SlotsOf(c)' = SlotsOf(c) \cup {j}
                 /\ \A e : e # c => SlotsOf(e)' = SlotsOf(e)
    BY <2>1, MoreSlots
  <2>3. (WithSpawner(d) <=> d = c) /\ ~ WithSpawner(d)'
    BY <1>6, <2>1 DEF Lists, WithSpawner
  <2>4. CASE d = c
    <3>1. /\ SlotsOf(d)' = {j}
          /\ \A v \in User : ~ sandbox_has(v, d)' /\ ~ InPassage(v, d)'
      BY <1>3, <2>2, <2>3, <2>4 DEF Sole
    <3>2. Sole(d)'
      BY <2>3, <3>1 DEF Sole
    <3>3. QED
      BY <2>1, <2>3, <2>4, <3>2, HandOver
  <2>5. CASE d # c
    <3>1. Shrinks(d)
      BY <1>3, <2>2, <2>3, <2>5 DEF Shrinks
    <3>2. QED
      BY <1>1, <2>1, <3>1, ShrinkKeeps
  <2>6. QED
    BY <2>4, <2>5
<1>7. ASSUME NEW S, Ages(S)
      PROVE  Sole(d)' /\ Fresh(d)'
  <2>1. /\ SlotsOf(d)' = SlotsOf(d) \ S /\ UNCHANGED g_doc_id_counter
        /\ WithSpawner(d)' <=> SlotsOf(d) \cap S # {}
    BY <1>7, LessSlots DEF Ages, WithSpawner, SlotsOf
  <2>2. CASE SlotsOf(d) \cap S # {}
    <3>1. /\ SlotsOf(d)' = {}
          /\ \A v \in User : ~ sandbox_has(v, d)' /\ ~ InPassage(v, d)'
      BY <1>3, <2>1, <2>2 DEF Sole
    <3>2. Sole(d)'
      BY <3>1 DEF Sole
    <3>3. QED
      BY <2>1, <2>2, <3>2, HandOver
  <2>3. CASE SlotsOf(d) \cap S = {}
    <3>1. Shrinks(d)
      BY <1>3, <2>1, <2>3 DEF Shrinks
    <3>2. QED
      BY <1>1, <2>1, <3>1, ShrinkKeeps
  <2>4. QED
    BY <2>2, <2>3
<1>8. QED
  BY <1>4, <1>5, <1>6, <1>7

LEMMA CustodyStep ==
    ASSUME g_doc_id_counter \in Nat, NEW d, Sole(d), Fresh(d), Kinds
    PROVE  Sole(d)' /\ Fresh(d)'
<1>1. CASE Quiet
  <2>1. /\ SlotsOf(d)' = SlotsOf(d) /\ UNCHANGED g_doc_id_counter
        /\ \A u \in User : InPassage(u, d)' <=> InPassage(u, d)
        /\ \A u \in User : sandbox_has(u, d)' => sandbox_has(u, d)
    BY <1>1, SameSlots, SamePassage, FolderShrinks DEF Quiet, ThreadsSame
  <2>2. WithSpawner(d)' <=> WithSpawner(d)
    BY <1>1 DEF Quiet, WithSpawner
  <2>3. Shrinks(d)
    BY <2>1, <2>2 DEF Shrinks
  <2>4. g_doc_id_counter \in Nat /\ SPAWN_LIMIT \in Nat
    BY TradeAssumption
  <2>5. QED
    BY <2>1, <2>3, <2>4, ShrinkKeeps
<1>2. QED
  BY <1>1, HandlerCustody, EventCustody DEF Kinds

\* Counting custodians: none, or the one that Sole leaves.
LEMMA SoleIsOne ==
    ASSUME NEW d, Sole(d)
    PROVE  Cardinality(Custodians(d)) <= 1
<1>1. \A x, y \in Custodians(d) : x = y
  <2>1. \A x \in Custodians(d) :
           \/ \E i \in SlotsOf(d) : x = <<"slot", i>>
           \/ \E u \in User : x = <<"passage", u>> /\ InPassage(u, d)
           \/ \E u \in User : x = <<"sandbox", u>> /\ sandbox_has(u, d)
           \/ x = <<"spawner", 0>> /\ WithSpawner(d)
    BY DEF Custodians
  <2>2. QED
    BY <2>1 DEF Sole
<1>2. CASE Custodians(d) = {}
  BY <1>2, FS_EmptySet
<1>3. CASE Custodians(d) # {}
  <2>1. PICK x : x \in Custodians(d)
    BY <1>3
  <2>2. Custodians(d) = {x}
    BY <1>1, <2>1
  <2>3. QED
    BY <2>2, FS_Singleton
<1>4. QED
  BY <1>2, <1>3

-----------------------------------------------------------------------------
\* Every offer has its file.

\* The file of d stays as it is; the next state has a file for d with these tags.
FileKept(d) == d \in DOMAIN master => d \in DOMAIN master' /\ master'[d] = master[d]
WillBack(d, tags) == d \in DOMAIN master' /\ master'[d] = tags

LEMMA BackedStays ==
    ASSUME NEW d, NEW T, Backed(d, T), FileKept(d)
    PROVE  WillBack(d, T)
BY DEF Backed, FileKept, WillBack

\* A document is shown with other tags only when the spawner has written it.
LEMMA ShowsStep ==
    ASSUME Kinds, NEW d, NEW T, Shows(d, T)'
    PROVE  Shows(d, T) \/ (Writes /\ ev.doc_id = d /\ ev.tags = T)
<1> DEFINE Slots == \E i \in SlotsOf(d) : g_market[i].tags = T
           Passage(u) == InPassage(u, d) /\ th[u].slot.tags = T
           Spawn == ev.pc = "spawn_add" /\ ev.doc_id = d /\ ev.tags = T
<1>1. /\ Slots => Shows(d, T)
      /\ \A u \in User : Passage(u) => Shows(d, T)
      /\ Spawn => Shows(d, T)
  BY DEF Shows
<1>2. Slots' \/ (\E u \in User : Passage(u)') \/ Spawn'
  BY DEF Shows
<1>3. ASSUME NEW u, ThreadSame(u), Passage(u)'
      PROVE  Passage(u)
  BY <1>3, SamePassage DEF ThreadSame, InPassage, Passes, Passing
<1>4. ASSUME NEW S, BoardSame \/ BoardLess(S), Slots'
      PROVE  Slots
  BY <1>4 DEF BoardSame, BoardLess, SameOffer, SlotsOf
<1>5. ASSUME NEW c, NEW W, NEW q, BoardMore(c, W, q), Slots'
      PROVE  Slots \/ (c = d /\ W = T)
  BY <1>5 DEF BoardMore, SameOffer, SlotsOf
<1>6. CASE Quiet
  <2>1. BoardSame /\ ThreadsSame /\ (Spawn' <=> Spawn)
    BY <1>6 DEF Quiet
  <2> HIDE DEF Slots, Passage, Spawn
  <2>2. QED
    BY <1>1, <1>2, <1>3, <1>4, <2>1 DEF ThreadsSame
<1>7. ASSUME NEW u \in User, NEW i, Takes(u, i)
      PROVE  Shows(d, T)
  <2>1. BoardLess({i}) /\ OthersSame(u) /\ (Spawn' <=> Spawn)
    BY <1>7 DEF Takes
  <2>2. Passage(u)' => Slots
    BY <1>7 DEF Takes, InPassage, SlotsOf
  <2> HIDE DEF Slots, Passage, Spawn
  <2>3. QED
    BY <1>1, <1>2, <1>3, <1>4, <2>1, <2>2 DEF OthersSame
<1>8. ASSUME NEW u \in User, Moves(u) \/ Loses(u)
      PROVE  Shows(d, T)
  <2>1. BoardSame /\ OthersSame(u) /\ (Spawn' <=> Spawn) /\ ~ Passage(u)'
    BY <1>8 DEF Moves, Loses, InPassage, Passes, Passing
  <2> HIDE DEF Slots, Passage, Spawn
  <2>2. QED
    BY <1>1, <1>2, <1>3, <1>4, <2>1 DEF OthersSame
<1>9. ASSUME NEW u \in User, Relists(u)
      PROVE  Shows(d, T)
  <2>1. OthersSame(u) /\ (Spawn' <=> Spawn) /\ ~ Passage(u)'
    BY <1>9 DEF Relists, InPassage, Passes, Passing
  <2>2. Slots' => Slots \/ Passage(u)
    <3>1. PICK c, W, q : /\ BoardMore(c, W, q)
                         /\ c = th[u].slot.doc_id /\ W = th[u].slot.tags
      BY <1>9 DEF Relists
    <3>2. c = d /\ W = T => Passage(u)
      BY <1>9, <3>1 DEF Relists, InPassage, Passes, Passing
    <3>3. QED
      BY <1>5, <3>1, <3>2
  <2> HIDE DEF Slots, Passage, Spawn
  <2>3. QED
    BY <1>1, <1>2, <1>3, <2>1, <2>2 DEF OthersSame
<1>10. CASE Lists
  <2>1. ThreadsSame /\ ~ Spawn'
    BY <1>10 DEF Lists, EventOnly
  <2>2. Slots' => Slots \/ Spawn
    <3>1. PICK c, W, q : BoardMore(c, W, q) /\ c = ev.doc_id /\ W = ev.tags
      BY <1>10 DEF Lists
    <3>2. c = d /\ W = T => Spawn
      BY <1>10, <3>1 DEF Lists
    <3>3. QED
      BY <1>5, <3>1, <3>2
  <2> HIDE DEF Slots, Passage, Spawn
  <2>3. QED
    BY <1>1, <1>2, <1>3, <2>1, <2>2 DEF ThreadsSame
<1>11. CASE Chooses \/ HandsBack \/ (\E S : Ages(S)) \/ \E c : Removes(c)
  <2>1. /\ ThreadsSame /\ ~ Spawn' /\ (BoardSame \/ \E S : BoardLess(S))
    BY <1>11 DEF Chooses, HandsBack, Ages, Removes, EventOnly
  <2> HIDE DEF Slots, Passage, Spawn
  <2>2. QED
    BY <1>1, <1>2, <1>3, <1>4, <2>1 DEF ThreadsSame
<1>12. CASE Writes
  <2>1. /\ ThreadsSame /\ BoardSame /\ (Spawn' => ev.doc_id = d /\ ev.tags = T)
    BY <1>12 DEF Writes, EventOnly
  <2> HIDE DEF Slots, Passage, Spawn
  <2>2. QED
    BY <1>1, <1>2, <1>3, <1>4, <1>12, <2>1 DEF ThreadsSame
<1>13. QED
  BY <1>6, <1>7, <1>8, <1>9, <1>10, <1>11, <1>12 DEF Kinds

\* Only whoever has a document changes its file; then nobody else shows it.
LEMMA BackedStep ==
    ASSUME NEW d, Sole(d), DocBacked(d), Kinds
    PROVE  DocBacked(d)'
<1>1. SUFFICES ASSUME NEW T \in SUBSET Tag, Shows(d, T)'
               PROVE  WillBack(d, T)
  BY DEF DocBacked, Backed, WillBack
<1>2. CASE FileKept(d) /\ Shows(d, T)
  BY <1>2, BackedStays DEF DocBacked
<1>3. ASSUME Writes, ev.doc_id = d
      PROVE  WillBack(d, T)
  <2>1. WithSpawner(d)
    BY <1>3 DEF Writes, WithSpawner
  <2>2. ~ Shows(d, T)
    BY <1>3, <2>1 DEF Sole, Shows, Writes
  <2>3. ev.tags = T
    BY <2>2, <1>1, ShowsStep
  <2>4. QED
    BY <1>3, <2>3 DEF Writes, WillBack
<1>4. ASSUME NEW u \in User, Moves(u), InPassage(u, d)
      PROVE  FALSE
  <2>1. /\ SlotsOf(d) = {} /\ ~ WithSpawner(d)
        /\ \A v \in User \ {u} : ~ InPassage(v, d)
    BY <1>4 DEF Sole
  <2>2. SlotsOf(d)' = {} /\ UNCHANGED ev /\ \A v \in User : ~ InPassage(v, d)'
    <3>1. BoardSame /\ UNCHANGED ev /\ OthersSame(u) /\ ~ Passes(u)'
      BY <1>4 DEF Moves
    <3>2. SlotsOf(d)' = {}
      BY <2>1, <3>1, SameSlots
    <3>3. ~ InPassage(u, d)'
      BY <3>1 DEF InPassage, Passes, Passing
    <3>4. ASSUME NEW v \in User \ {u}
          PROVE  ~ InPassage(v, d)'
      BY <2>1, <3>1, SamePassage DEF OthersSame
    <3>5. QED
      BY <3>1, <3>2, <3>3, <3>4
  <2>3. QED
    BY <1>1, <2>1, <2>2 DEF Shows, WithSpawner
<1>5. ASSUME Removes(d)
      PROVE  FALSE
  <2>1. WithSpawner(d)
    BY <1>5 DEF Removes, WithSpawner
  <2>2. SlotsOf(d) = {} /\ \A v \in User : ~ InPassage(v, d)
    BY <2>1 DEF Sole
  <2>3. SlotsOf(d)' = {} /\ ev'.pc # "spawn_add" /\ \A v \in User : ~ InPassage(v, d)'
    BY <1>5, <2>2, SameSlots, SamePassage DEF Removes, EventOnly, ThreadsSame
  <2>4. QED
    BY <1>1, <2>3 DEF Shows
<1>6. CASE ~ FileKept(d)
  <2>1. \/ Writes /\ ev.doc_id = d
        \/ \E u \in User : Moves(u) /\ InPassage(u, d)
        \/ Removes(d)
    BY <1>6 DEF Kinds, Quiet, Takes, Moves, Relists, Loses, Chooses, Writes, Lists,
                HandsBack, Ages, Removes, MasterLess, FileKept, InPassage, Passes, Passing
  <2>2. QED
    BY <1>3, <1>4, <1>5, <2>1
<1>7. QED
  BY <1>1, <1>2, <1>3, <1>6, ShowsStep

LEMMA BackedMeans ==
    ASSUME TypeOK, \A d \in DocId : DocBacked(d)
    PROVE  OfferBacked
<1>1. SUFFICES ASSUME NEW i \in DOMAIN g_market
               PROVE  Backed(g_market[i].doc_id, g_market[i].tags)
  BY DEF OfferBacked, Backed
<1>2. g_market[i] \in MarketSlot
  BY TableElim DEF TypeOK
<1>3. g_market[i].doc_id \in DocId /\ g_market[i].tags \in SUBSET Tag
  BY <1>2 DEF MarketSlot
<1>4. Shows(g_market[i].doc_id, g_market[i].tags)
  BY DEF Shows, SlotsOf
<1>5. QED
  BY <1>3, <1>4 DEF DocBacked

-----------------------------------------------------------------------------
\* The custody theorems.

\* At the start the board has every document, each in one slot.
LEMMA CustodyStart ==
    ASSUME SeedsApart, TradeInit
    PROVE  CustodyInv
<1>1. /\ sandbox = [u \in User |-> [d \in {} |-> {}]] /\ g_doc_id_counter = 0
      /\ th = [u \in User |-> [pc |-> "ready"]] /\ ev = [pc |-> "idle"]
  BY DEF TradeInit
<1>2. ev.pc = "idle" /\ \A u \in User : ~ Passes(u) /\ DOMAIN sandbox[u] = {}
  BY <1>1 DEF Passes, Passing
<1>3. \A d : /\ ~ WithSpawner(d)
             /\ \A u \in User : ~ InPassage(u, d) /\ ~ sandbox_has(u, d)
  BY <1>2 DEF WithSpawner, InPassage, Passes, Passing, sandbox_has
<1>4. ASSUME NEW d, NEW i \in SlotsOf(d), NEW j \in SlotsOf(d)
      PROVE  i = j
  <2>1. /\ i \in 0 .. (Len(SeedDocs) - 1) /\ i + 1 \in DOMAIN SeedDocs
        /\ j \in 0 .. (Len(SeedDocs) - 1) /\ j + 1 \in DOMAIN SeedDocs
        /\ SeedDocs[i + 1].doc_id = SeedDocs[j + 1].doc_id
    BY SeededBoard DEF SlotsOf
  <2>2. i + 1 = j + 1
    BY <2>1 DEF SeedsApart
  <2>3. i \in Int /\ j \in Int
    BY <2>1, SeedsTyped
  <2>4. QED
    BY <2>2, <2>3
<1>5. ASSUME NEW d \in 1 .. SPAWN_LIMIT
      PROVE  SlotsOf(d) = {}
  <2>1. SUFFICES ASSUME NEW i \in SlotsOf(d)
                 PROVE  FALSE
    OBVIOUS
  <2>2. i + 1 \in DOMAIN SeedDocs /\ SeedDocs[i + 1].doc_id = d
    BY SeededBoard DEF SlotsOf
  <2>3. QED
    BY <2>2 DEF SeedsApart
<1>6. ASSUME NEW d
      PROVE  Sole(d) /\ Fresh(d)
  <2>1. Sole(d)
    BY <1>3, <1>4 DEF Sole
  <2>2. Fresh(d)
    <3>1. (g_doc_id_counter + 1) .. SPAWN_LIMIT = 1 .. SPAWN_LIMIT
      BY <1>1
    <3>2. QED
      BY <1>3, <1>5, <3>1 DEF Fresh
  <2>3. QED
    BY <2>1, <2>2
<1>7. OfferBacked
  <2>1. SUFFICES ASSUME NEW i \in DOMAIN g_market
                 PROVE  /\ g_market[i].doc_id \in DOMAIN master
                        /\ master[g_market[i].doc_id] = g_market[i].tags
    BY DEF OfferBacked
  <2>2. /\ i + 1 \in DOMAIN SeedDocs /\ g_market[i].doc_id = SeedDocs[i + 1].doc_id
        /\ g_market[i].tags = SeedDocs[i + 1].tags
    BY SeededBoard
  <2>3. g_market[i].doc_id \in DOMAIN master
    BY <2>2, SeededFiles
  <2>4. PICK k \in DOMAIN SeedDocs : /\ SeedDocs[k].doc_id = g_market[i].doc_id
                                     /\ master[g_market[i].doc_id] = SeedDocs[k].tags
    BY <2>3, SeededFiles
  <2>5. k = i + 1
    BY <2>2, <2>4 DEF SeedsApart
  <2>6. QED
    BY <2>2, <2>3, <2>4, <2>5
<1>8. ASSUME NEW d
      PROVE  DocBacked(d)
  BY <1>2, <1>3, <1>7 DEF DocBacked, Shows, Backed, OfferBacked, SlotsOf
<1>9. QED
  BY <1>6, <1>8 DEF CustodyInv

LEMMA CustodyInvariant ==
    ASSUME SeedsApart
    PROVE  TradeSpec => [](TradeTypeOK /\ CustodyInv)
<1>1. TradeInit => TradeTypeOK /\ CustodyInv
  BY TradeStart, CustodyStart
<1>2. TradeTypeOK /\ CustodyInv /\ [TradeNext]_tvars => TradeTypeOK' /\ CustodyInv'
  <2>1. SUFFICES ASSUME TradeTypeOK, CustodyInv, [TradeNext]_tvars
                 PROVE  TradeTypeOK' /\ CustodyInv'
    OBVIOUS
  <2>2. TradeTypeOK' /\ Kinds
    BY <2>1, StepKinds
  <2>3. ASSUME NEW d \in DocId
        PROVE  Sole(d)' /\ Fresh(d)' /\ DocBacked(d)'
    BY <2>1, <2>2, CustodyStep, BackedStep DEF CustodyInv, TradeTypeOK
  <2>4. QED
    BY <2>2, <2>3 DEF CustodyInv
<1>3. QED
  BY <1>1, <1>2, PTL DEF TradeSpec

\* First come, first served, for any number of players, slots, spawns, failing
\* renames and raids: while the spawner's ids have not run into those of the seeds,
\* a document is never in two places (market_take hands it to one buyer, and a
\* rollback, a spawn or an aging sweep never gives out one that somebody has).
THEOREM CustodyUnique ==
    ASSUME SeedsApart
    PROVE  TradeSpec => []OneCustodian
<1>1. CustodyInv => OneCustodian
  BY SoleIsOne DEF CustodyInv, OneCustodian
<1>2. QED
  BY <1>1, CustodyInvariant, PTL

\* Under the same condition, an offer can be delivered from the moment it is listed,
\* by main, by the spawner or by a rollback, until its slot is taken: its file is in
\* data/master and holds the tags shown.
THEOREM OffersDeliverable ==
    ASSUME SeedsApart
    PROVE  TradeSpec => []OfferBacked
<1>1. TradeTypeOK /\ CustodyInv => OfferBacked
  BY BackedMeans DEF CustodyInv, TradeTypeOK
<1>2. QED
  BY <1>1, CustodyInvariant, PTL

-----------------------------------------------------------------------------
\* The price a buyer was told is the one he pays.

\* d is on offer, bought and not moved yet, or about to be listed, for p.
Quote(d, p) ==
    \/ \E i \in SlotsOf(d) : g_market[i].base_price = p
    \/ \E u \in User : InPassage(u, d) /\ th[u].slot.base_price = p
    \/ ev.pc \in {"spawn_write", "spawn_add"} /\ ev.doc_id = d /\ ev.base_price = p

Asks(u, d) == th[u].pc \in CountPc \cup {"buy_take"} /\ th[u].doc_id = d

\* handle_buy compares the money it read with the price of market_find and pays the
\* price of market_take: in between nobody can have listed the document for more.
Affords(u) ==
    /\ \A d \in DocId, p \in Price :
          Asks(u, d) /\ Quote(d, p) =>
              /\ th[u].pc \in CountPc => p = th[u].base_price
              /\ th[u].pc = "buy_take" => p <= th[u].money
    /\ \A d \in DocId : Asks(u, d) => d \notin (g_doc_id_counter + 1) .. SPAWN_LIMIT
    /\ th[u].pc \in MovePc => th[u].slot.base_price <= th[u].money

\* A document is offered for another price only when the spawner makes it.
LEMMA QuoteStep ==
    ASSUME Kinds, NEW d, NEW p, Quote(d, p)'
    PROVE  Quote(d, p) \/ (d = g_doc_id_counter + 1 /\ g_doc_id_counter < SPAWN_LIMIT)
<1> DEFINE Slots == \E i \in SlotsOf(d) : g_market[i].base_price = p
           Passage(u) == InPassage(u, d) /\ th[u].slot.base_price = p
           Spawn == ev.pc \in {"spawn_write", "spawn_add"} /\ ev.doc_id = d /\ ev.base_price = p
<1>1. /\ Slots => Quote(d, p)
      /\ \A u \in User : Passage(u) => Quote(d, p)
      /\ Spawn => Quote(d, p)
  BY DEF Quote
<1>2. Slots' \/ (\E u \in User : Passage(u)') \/ Spawn'
  BY DEF Quote
<1>3. ASSUME NEW u, ThreadSame(u), Passage(u)'
      PROVE  Passage(u)
  BY <1>3, SamePassage DEF ThreadSame, InPassage, Passes, Passing
<1>4. ASSUME NEW S, BoardSame \/ BoardLess(S), Slots'
      PROVE  Slots
  BY <1>4 DEF BoardSame, BoardLess, SameOffer, SlotsOf
<1>5. ASSUME NEW c, NEW T, NEW q, BoardMore(c, T, q), Slots'
      PROVE  Slots \/ (c = d /\ q = p)
  BY <1>5 DEF BoardMore, SameOffer, SlotsOf
<1> HIDE DEF Slots
<1>6. CASE Quiet
  BY <1>1, <1>2, <1>3, <1>4, <1>6 DEF Quiet, ThreadsSame
<1>7. ASSUME NEW u \in User, NEW i, Takes(u, i)
      PROVE  Quote(d, p)
  <2>1. Passage(u)' => Slots
    BY <1>7 DEF Takes, InPassage, Slots, SlotsOf
  <2>2. QED
    BY <1>1, <1>2, <1>3, <1>4, <1>7, <2>1 DEF Takes, OthersSame
<1>8. ASSUME NEW u \in User, Moves(u) \/ Loses(u)
      PROVE  Quote(d, p)
  <2>1. ~ Passage(u)'
    BY <1>8 DEF Moves, Loses, InPassage, Passes, Passing
  <2>2. QED
    BY <1>1, <1>2, <1>3, <1>4, <1>8, <2>1 DEF Moves, Loses, OthersSame
<1>9. ASSUME NEW u \in User, Relists(u)
      PROVE  Quote(d, p)
  <2>1. ~ Passage(u)'
    BY <1>9 DEF Relists, InPassage, Passes, Passing
  <2>2. Slots' => Slots \/ Passage(u)
    BY <1>5, <1>9 DEF Relists, InPassage, Passes, Passing
  <2>3. QED
    BY <1>1, <1>2, <1>3, <1>9, <2>1, <2>2 DEF Relists, OthersSame
<1>10. CASE Writes \/ HandsBack \/ (\E S : Ages(S)) \/ \E e : Removes(e)
  <2>1. Spawn' => Spawn
    BY <1>10 DEF Writes, HandsBack, Ages, Removes
  <2>2. Slots' => Slots
    BY <1>4, <1>10 DEF Writes, HandsBack, Ages, Removes
  <2>3. ThreadsSame
    BY <1>10 DEF Writes, HandsBack, Ages, Removes, EventOnly
  <2>4. QED
    BY <1>1, <1>2, <1>3, <2>1, <2>2, <2>3 DEF ThreadsSame
<1>11. CASE Lists
  <2>1. ~ Spawn' /\ ThreadsSame
    BY <1>11 DEF Lists, EventOnly
  <2>2. Slots' => Slots \/ Spawn
    BY <1>5, <1>11 DEF Lists
  <2>3. QED
    BY <1>1, <1>2, <1>3, <2>1, <2>2 DEF ThreadsSame
<1>12. CASE Chooses
  <2>1. Spawn' => d = g_doc_id_counter + 1 /\ g_doc_id_counter < SPAWN_LIMIT
    BY <1>12 DEF Chooses
  <2>2. (Slots' => Slots) /\ ThreadsSame
    BY <1>4, <1>12 DEF Chooses, EventOnly
  <2>3. QED
    BY <1>1, <1>2, <1>3, <2>1, <2>2 DEF ThreadsSame
<1>13. QED
  BY <1>6, <1>7, <1>8, <1>9, <1>10, <1>11, <1>12 DEF Kinds

LEMMA CounterStep ==
    ASSUME Kinds
    PROVE  g_doc_id_counter' \in {g_doc_id_counter, g_doc_id_counter + 1}
BY DEF Kinds, Quiet, Takes, Moves, Relists, Loses, Chooses, Writes, Lists, HandsBack, Ages,
       Removes

\* What holds of the prices of a document that a buyer asks for goes on to hold.
LEMMA QuotesStay ==
    ASSUME TradeTypeOK, Kinds, NEW d, d \notin (g_doc_id_counter + 1) .. SPAWN_LIMIT
    PROVE  /\ d \notin (g_doc_id_counter' + 1) .. SPAWN_LIMIT
           /\ \A p : Quote(d, p)' => Quote(d, p)
<1>1. g_doc_id_counter \in Nat /\ SPAWN_LIMIT \in Nat
  BY TradeAssumption DEF TradeTypeOK
<1>2. g_doc_id_counter' = g_doc_id_counter \/ g_doc_id_counter' = g_doc_id_counter + 1
  BY CounterStep
<1>3. d \notin (g_doc_id_counter' + 1) .. SPAWN_LIMIT
  BY <1>1, <1>2
<1>4. ~ (d = g_doc_id_counter + 1 /\ g_doc_id_counter < SPAWN_LIMIT)
  BY <1>1
<1>5. QED
  BY <1>3, <1>4, QuoteStep

\* A thread that does nothing in this step, ...
LEMMA AffordsIdle ==
    ASSUME TradeTypeOK, Kinds, NEW u \in User, Affords(u), th'[u] = th[u]
    PROVE  Affords(u)'
<1>1. \A d : Asks(u, d)' <=> Asks(u, d)
  BY DEF Asks
<1>2. QED
  BY <1>1, QuotesStay DEF Affords

\* ... and one that is not in a purchase.
LEMMA AffordsNothing ==
    ASSUME NEW u \in User, th'[u].pc \notin CountPc \cup {"buy_take"} \cup MovePc
    PROVE  Affords(u)'
BY DEF Affords, Asks

LEMMA BuyFindAffords ==
    ASSUME TradeTypeOK, CustodyInv, Kinds, NEW u \in User, NEW d \in DocId, BuyFind(u, d)
    PROVE  Affords(u)'
<1>1. CASE Goto(u, CheckBust)
  <2>1. th'[u].pc = "bust_money"
    BY <1>1 DEF Goto, CheckBust, TradeTypeOK
  <2>2. QED
    BY <2>1, AffordsNothing DEF CountPc, MovePc
<1>2. ASSUME NEW i \in market_find(d),
             Goto(u, [pc |-> "buy_count", doc_id |-> d, base_price |-> g_market[i].base_price])
      PROVE  Affords(u)'
  <2>1. /\ th'[u].pc = "buy_count" /\ th'[u].doc_id = d
        /\ th'[u].base_price = g_market[i].base_price
    BY <1>2 DEF Goto, TradeTypeOK
  <2>2. i \in SlotsOf(d)
    BY DEF market_find, FirstOf
  <2>3. Sole(d) /\ Fresh(d)
    BY DEF CustodyInv
  <2>4. d \notin (g_doc_id_counter + 1) .. SPAWN_LIMIT
    BY <2>2, <2>3 DEF Fresh
  <2>5. ASSUME NEW p, Quote(d, p)
        PROVE  p = g_market[i].base_price
    BY <2>2, <2>3, <2>5 DEF Quote, Sole, WithSpawner
  <2>6. /\ d \notin (g_doc_id_counter' + 1) .. SPAWN_LIMIT
        /\ \A p : Quote(d, p)' => p = g_market[i].base_price
    BY <2>4, <2>5, QuotesStay
  <2>7. \A e : Asks(u, e)' => e = d
    BY <2>1 DEF Asks
  <2>8. QED
    BY <2>1, <2>6, <2>7 DEF Affords, CountPc, MovePc
<1>3. QED
  BY <1>1, <1>2 DEF BuyFind

LEMMA BuyCountAffords ==
    ASSUME TradeTypeOK, Kinds, NEW u \in User, Affords(u), BuyCount(u)
    PROVE  Affords(u)'
<1>1. th[u] \in HandlerState /\ th[u].pc \in CountPc
  BY DEF BuyCount, At, CountPc, TradeTypeOK
<1>2. CASE Goto(u, CheckBust)
  <2>1. th'[u].pc = "bust_money"
    BY <1>2 DEF Goto, CheckBust, TradeTypeOK
  <2>2. QED
    BY <2>1, AffordsNothing DEF CountPc, MovePc
<1>3. CASE Goto(u, [th[u] EXCEPT !.pc = "buy_money"])
  <2>1. th'[u] = [th[u] EXCEPT !.pc = "buy_money"]
    BY <1>3 DEF Goto, TradeTypeOK
  <2>2. /\ th'[u].pc = "buy_money" /\ th'[u].doc_id = th[u].doc_id
        /\ th'[u].base_price = th[u].base_price
    BY <1>1, <2>1, CountOn DEF CountPc
  <2>3. \A d : Asks(u, d)' => Asks(u, d)
    BY <1>1, <2>2 DEF Asks
  <2>4. QED
    BY <1>1, <2>2, <2>3, QuotesStay DEF Affords, CountPc, MovePc
<1>4. QED
  BY <1>2, <1>3 DEF BuyCount

LEMMA BuyMoneyAffords ==
    ASSUME TradeTypeOK, Kinds, NEW u \in User, Affords(u), BuyMoney(u)
    PROVE  Affords(u)'
<1>1. th[u] \in HandlerState /\ th[u].pc \in CountPc
  BY DEF BuyMoney, At, CountPc, TradeTypeOK
<1>2. CASE Goto(u, CheckBust)
  <2>1. th'[u].pc = "bust_money"
    BY <1>2 DEF Goto, CheckBust, TradeTypeOK
  <2>2. QED
    BY <2>1, AffordsNothing DEF CountPc, MovePc
<1>3. CASE /\ ~ (users_dat[u] < th[u].base_price)
           /\ Goto(u, [pc |-> "buy_take", doc_id |-> th[u].doc_id, money |-> users_dat[u]])
  <2>1. /\ th'[u].pc = "buy_take" /\ th'[u].doc_id = th[u].doc_id
        /\ th'[u].money = users_dat[u]
    BY <1>3 DEF Goto, TradeTypeOK
  <2>2. th[u].base_price \in Int /\ users_dat[u] \in Int
    <3>1. th[u].base_price \in Price
      BY <1>1, HandlerElim
    <3>2. Price \subseteq Int
      BY TradeAssumption
    <3>3. QED
      BY <3>1, <3>2 DEF TradeTypeOK
  <2>3. th[u].base_price <= users_dat[u]
    BY <1>3, <2>2
  <2>4. \A d : Asks(u, d)' => Asks(u, d)
    BY <1>1, <2>1 DEF Asks
  <2>5. QED
    BY <1>1, <2>1, <2>3, <2>4, QuotesStay DEF Affords, CountPc, MovePc
<1>4. QED
  BY <1>2, <1>3 DEF BuyMoney

LEMMA BuyTakeAffords ==
    ASSUME TradeTypeOK, NEW u \in User, Affords(u), BuyTake(u)
    PROVE  Affords(u)'
<1>1. th[u] \in HandlerState /\ th[u].pc = "buy_take"
  BY DEF BuyTake, At, TradeTypeOK
<1>2. CASE Goto(u, CheckBust)
  <2>1. th'[u].pc = "bust_money"
    BY <1>2 DEF Goto, CheckBust, TradeTypeOK
  <2>2. QED
    BY <2>1, AffordsNothing DEF CountPc, MovePc
<1>3. ASSUME NEW i \in market_find(th[u].doc_id),
             Goto(u, [pc |-> "buy_move", slot |-> Shown(g_market[i]), money |-> th[u].money])
      PROVE  Affords(u)'
  <2>1. PICK d \in DocId : d = th[u].doc_id
    BY <1>1, HandlerElim
  <2>2. i \in SlotsOf(d) /\ i \in DOMAIN g_market
    BY <2>1 DEF market_find, FirstOf, SlotsOf
  <2>3. g_market[i] \in MarketSlot
    BY <2>2, TableElim DEF TradeTypeOK, TypeOK
  <2>4. g_market[i].base_price \in Price /\ Quote(d, g_market[i].base_price)
    BY <2>2, <2>3 DEF MarketSlot, Quote
  <2>5. Asks(u, d)
    BY <1>1, <2>1 DEF Asks
  <2>6. g_market[i].base_price <= th[u].money
    BY <1>1, <2>4, <2>5 DEF Affords
  <2>7. /\ th'[u].pc = "buy_move" /\ th'[u].slot = Shown(g_market[i])
        /\ th'[u].money = th[u].money
    BY <1>3 DEF Goto, TradeTypeOK
  <2>8. Shown(g_market[i]).base_price = g_market[i].base_price
    BY DEF Shown
  <2>9. \A e : ~ Asks(u, e)'
    BY <2>7 DEF Asks, CountPc
  <2>10. QED
    BY <2>6, <2>7, <2>8, <2>9 DEF Affords
<1>4. QED
  BY <1>2, <1>3 DEF BuyTake

LEMMA BuyMoveAffords ==
    ASSUME TradeTypeOK, NEW u \in User, Affords(u), BuyMove(u)
    PROVE  Affords(u)'
<1>1. th[u] \in HandlerState /\ th[u].pc \in MovePc
  BY DEF BuyMove, At, MovePc, TradeTypeOK
<1>2. PICK p \in MovePc : Goto(u, [th[u] EXCEPT !.pc = p])
  BY DEF BuyMove, MovePc
<1>3. th'[u] = [th[u] EXCEPT !.pc = p]
  BY <1>2 DEF Goto, TradeTypeOK
<1>4. th'[u].pc = p /\ th'[u].slot = th[u].slot /\ th'[u].money = th[u].money
  BY <1>1, <1>3, MoveOn
<1>5. \A e : ~ Asks(u, e)'
  BY <1>4 DEF Asks, CountPc, MovePc
<1>6. QED
  BY <1>1, <1>4, <1>5 DEF Affords

\* The rest of the handler's calls lead out of a purchase or stay out of it.
LEMMA OtherAffords ==
    ASSUME TradeTypeOK, NEW u \in User,
           \/ BuyUndo(u) \/ BuyPay(u) \/ BustMoney(u) \/ BustCount(u) \/ BustBurn(u)
           \/ SellCheck(u) \/ SellTake(u) \/ SellDispose(u) \/ SellMoney(u) \/ SellPay(u)
           \/ \E n \in NpcId, ids \in SUBSET DocId : SellFind(u, n, ids)
    PROVE  Affords(u)' /\ th'[u].pc \notin CountPc \cup {"buy_take"} \cup MovePc
<1>1. th \in [User -> HandlerState] /\ th[u] \in HandlerState
  BY DEF TradeTypeOK
<1>2. ASSUME NEW h, Goto(u, h)
      PROVE  th'[u] = h
  BY <1>1, <1>2 DEF Goto
<1>3. th'[u].pc \notin CountPc \cup {"buy_take"} \cup MovePc
  <2>1. CASE SellCheck(u)
    <3>1. th[u].pc = "sell_check"
      BY <2>1 DEF SellCheck, At
    <3>2. PICK d \in FirstOf(th[u].todo) :
             Goto(u, IF ~ sandbox_has(u, d) THEN Ready
                     ELSE IF is_tag_frozen(sandbox[u][d]) THEN Ready
                     ELSE [th[u] EXCEPT !.todo = @ \ {d}, !.tag_union = @ \cup sandbox[u][d]])
      BY <2>1 DEF SellCheck
    <3>3. CASE Goto(u, Ready)
      BY <1>2, <3>3, ReadyIdle DEF CountPc, MovePc
    <3>4. CASE Goto(u, [th[u] EXCEPT !.todo = @ \ {d}, !.tag_union = @ \cup sandbox[u][d]])
      <4>1. th[u] \in Checking
        BY <1>1, <3>1 DEF HandlerState, Checking
      <4>2. [th[u] EXCEPT !.todo = @ \ {d}, !.tag_union = @ \cup sandbox[u][d]].pc
               = "sell_check"
        BY <4>1 DEF Checking
      <4>3. QED
        BY <1>2, <3>4, <4>2 DEF CountPc, MovePc
    <3>5. QED
      BY <3>2, <3>3, <3>4
  <2>2. CASE SellDispose(u)
    <3>1. PICK d : Goto(u, [th[u] EXCEPT !.todo = @ \ {d}])
      BY <2>2 DEF SellDispose
    <3>2. th[u].pc = "sell_dispose" /\ th[u].todo \in SUBSET DocId
      BY <1>1, <2>2, HandlerElim DEF SellDispose, At
    <3>3. PICK D \in SUBSET DocId : D = th[u].todo \ {d}
      BY <3>2
    <3>4. [th[u] EXCEPT !.todo = D].pc = "sell_dispose"
      BY <1>1, <3>2, DisposeOn
    <3>5. QED
      BY <1>2, <3>1, <3>3, <3>4 DEF CountPc, MovePc
  <2>3. CASE BuyUndo(u) \/ BuyPay(u) \/ BustMoney(u) \/ BustCount(u) \/ BustBurn(u)
    BY <1>2, <2>3 DEF BuyUndo, BuyPay, BustMoney, BustCount, BustBurn, CheckBust, Ready,
                      CountPc, MovePc
  <2>4. CASE SellTake(u) \/ SellMoney(u) \/ SellPay(u)
    <3>1. \/ \E x, b : Goto(u, [pc |-> "sell_dispose", todo |-> x, bounty |-> b])
          \/ \E m : Goto(u, [pc |-> "sell_pay", money |-> m])
          \/ Goto(u, [pc |-> "ready"])
      BY <2>4 DEF SellTake, SellMoney, SellPay, Ready
    <3>2. ASSUME NEW x, NEW b, Goto(u, [pc |-> "sell_dispose", todo |-> x, bounty |-> b])
          PROVE  th'[u].pc = "sell_dispose"
      BY <1>1, <3>2 DEF Goto
    <3>3. ASSUME NEW m, Goto(u, [pc |-> "sell_pay", money |-> m])
          PROVE  th'[u].pc = "sell_pay"
      BY <1>1, <3>3 DEF Goto
    <3>4. ASSUME Goto(u, [pc |-> "ready"])
          PROVE  th'[u].pc = "ready"
      BY <1>1, <3>4 DEF Goto
    <3>5. QED
      BY <3>1, <3>2, <3>3, <3>4 DEF CountPc, MovePc
  <2>5. CASE \E n \in NpcId, ids \in SUBSET DocId : SellFind(u, n, ids)
    BY <1>2, <2>5 DEF SellFind, CountPc, MovePc
  <2>6. QED
    BY <2>1, <2>2, <2>3, <2>4, <2>5
<1>4. QED
  BY <1>3, AffordsNothing

-----------------------------------------------------------------------------
\* A burned player's folder.

Purging(u) == raid.pc = "purge" /\ raid.key = u

\* Money on record, or about to be, is never below the mark of a burned account.
Solvent(u) ==
    /\ users_dat[u] >= BURNED
    /\ th[u].pc = "sell_pay" => th[u].money >= BURNED

\* A burned player's folder is empty or about to be emptied, but for a purchase that
\* was under way: it ends with a record that is not burned any more.
Emptied(u) ==
    \/ DOMAIN sandbox[u] = {}
    \/ Purging(u)
    \/ /\ users_dat[u] = BURNED => th[u].pc \in {"buy_pay", "gone"}
       /\ th[u].pc = "sell_pay" => th[u].money # BURNED

BurnInv(u) == Affords(u) /\ Solvent(u) /\ Emptied(u)

\* A step in which u's thread and record and the raid stay as they are.
LEMMA EmptiedIdle ==
    ASSUME NEW u \in User, Solvent(u), Emptied(u), th'[u] = th[u],
           users_dat'[u] = users_dat[u], DOMAIN sandbox'[u] \subseteq DOMAIN sandbox[u],
           raid' = raid
    PROVE  Solvent(u)' /\ Emptied(u)'
BY DEF Solvent, Emptied, Purging

\* A step of u's thread that writes no record and ends neither a purchase nor a sale.
LEMMA EmptiedKept ==
    ASSUME NEW u \in User, Solvent(u), Emptied(u), th[u].pc \notin {"buy_pay", "gone"},
           th'[u].pc # "sell_pay",
           users_dat'[u] = users_dat[u], DOMAIN sandbox'[u] \subseteq DOMAIN sandbox[u],
           raid' = raid
    PROVE  Solvent(u)' /\ Emptied(u)'
BY DEF Solvent, Emptied, Purging

\* A handler goes on with its own request, and leaves the event thread, the raids and
\* the mask of frozen tags alone.
LEMMA HandlerTouches ==
    ASSUME NEW u, Request(u) \/ Handler(u)
    PROVE  /\ UNCHANGED <<ev, raid, g_frozen_tags>> /\ th[u].pc \in OwnPc
           /\ (\E h : Goto(u, h)) \/ th' = th
<1>1. CASE Request(u)
  BY <1>1 DEF Request, BuyFind, handle_dispose, SellFind, OthersStay, vars, At, OwnPc, IdlePc
<1>2. CASE BuyCount(u) \/ BuyMoney(u) \/ BuyTake(u) \/ BuyMove(u) \/ BuyUndo(u) \/ BuyPay(u)
  BY <1>2 DEF BuyCount, BuyMoney, BuyTake, BuyMove, BuyUndo, BuyPay, OthersStay, vars,
              market_take, market_add, At, OwnPc, CountPc, MovePc
<1>3. CASE BustMoney(u) \/ BustCount(u) \/ BustBurn(u) \/ SellCheck(u) \/ SellTake(u)
  BY <1>3 DEF BustMoney, BustCount, BustBurn, SellCheck, SellTake, OthersStay, vars,
              npc_take, At, OwnPc, IdlePc
<1>4. CASE SellDispose(u) \/ SellMoney(u) \/ SellPay(u)
  BY <1>4 DEF SellDispose, SellMoney, SellPay, OthersStay, vars, At, OwnPc
<1>5. QED
  BY <1>1, <1>2, <1>3, <1>4 DEF Handler

\* A handler leaves the other players alone.
LEMMA OthersIdle ==
    ASSUME TradeTypeOK, NEW u \in User, NEW v \in User, u # v, Request(u) \/ Handler(u)
    PROVE  /\ th'[v] = th[v] /\ users_dat'[v] = users_dat[v]
           /\ sandbox'[v] = sandbox[v] /\ raid' = raid
<1>1. /\ th \in [User -> HandlerState] /\ users_dat \in [User -> Int]
      /\ sandbox \in [User -> Table(DocId, SUBSET Tag)]
  BY DEF TradeTypeOK
<1>2. ASSUME NEW h, Goto(u, h)
      PROVE  th'[v] = th[v]
  BY <1>1, <1>2 DEF Goto
<1>3. ASSUME NEW m, userdb_update_at(u, m)
      PROVE  users_dat'[v] = users_dat[v] /\ sandbox' = sandbox
  BY <1>1, <1>3 DEF userdb_update_at
<1>4. ASSUME NEW d, sandbox_dispose(u, d) \/ sandbox_buy(u, d)
      PROVE  users_dat' = users_dat /\ sandbox'[v] = sandbox[v]
  BY <1>1, <1>4 DEF sandbox_dispose, sandbox_buy
<1>5. raid' = raid /\ ((\E h : Goto(u, h)) \/ th' = th)
  BY HandlerTouches
<1>6. \/ users_dat' = users_dat /\ sandbox' = sandbox
      \/ \E m : userdb_update_at(u, m)
      \/ \E d : sandbox_dispose(u, d) \/ sandbox_buy(u, d)
  <2>1. CASE Request(u)
    BY <2>1 DEF Request, BuyFind, handle_dispose, SellFind, store
  <2>2. CASE BuyCount(u) \/ BuyMoney(u) \/ BuyTake(u) \/ BuyMove(u) \/ BuyUndo(u) \/ BuyPay(u)
    BY <2>2 DEF BuyCount, BuyMoney, BuyTake, BuyMove, BuyUndo, BuyPay, store
  <2>3. CASE BustMoney(u) \/ BustCount(u) \/ BustBurn(u) \/ SellCheck(u) \/ SellTake(u)
    BY <2>3 DEF BustMoney, BustCount, BustBurn, SellCheck, SellTake, store, userdb_burn_at
  <2>4. CASE SellDispose(u) \/ SellMoney(u) \/ SellPay(u)
    BY <2>4 DEF SellDispose, SellMoney, SellPay, store
  <2>5. QED
    BY <2>1, <2>2, <2>3, <2>4 DEF Handler
<1>7. QED
  BY <1>2, <1>3, <1>4, <1>5, <1>6

\* The calls of u's handler that write no record, but for the move of a file.
LEMMA CallsKeepEmptied ==
    ASSUME TradeTypeOK, NEW u \in User, Solvent(u), Emptied(u),
           \/ \E d \in DocId : BuyFind(u, d) \/ handle_dispose(u, d)
           \/ \E n \in NpcId, ids \in SUBSET DocId : SellFind(u, n, ids)
           \/ BuyCount(u) \/ BuyMoney(u) \/ BuyTake(u) \/ BuyUndo(u)
           \/ BustMoney(u) \/ BustCount(u)
           \/ SellCheck(u) \/ SellTake(u) \/ SellDispose(u)
    PROVE  Solvent(u)' /\ Emptied(u)'
<1>1. th \in [User -> HandlerState] /\ th[u] \in HandlerState
  BY DEF TradeTypeOK
<1>2. th[u].pc \notin {"buy_pay", "gone", "sell_pay"}
  BY DEF BuyFind, handle_dispose, SellFind, BuyCount, BuyMoney, BuyTake, BuyUndo, BustMoney,
         BustCount, SellCheck, SellTake, SellDispose, At
<1>3. users_dat' = users_dat /\ raid' = raid
  BY DEF BuyFind, handle_dispose, SellFind, BuyCount, BuyMoney, BuyTake, BuyUndo, BustMoney,
         BustCount, SellCheck, SellTake, SellDispose, store, OthersStay, sandbox_dispose
<1>4. DOMAIN sandbox'[u] \subseteq DOMAIN sandbox[u]
  <2>1. ASSUME NEW d, sandbox_dispose(u, d)
        PROVE  DOMAIN sandbox'[u] \subseteq DOMAIN sandbox[u]
    BY <2>1, FolderCut DEF sandbox_dispose, TradeTypeOK, FoldersLess
  <2>2. sandbox' = sandbox \/ \E d : sandbox_dispose(u, d)
    BY DEF BuyFind, handle_dispose, SellFind, BuyCount, BuyMoney, BuyTake, BuyUndo,
           BustMoney, BustCount, SellCheck, SellTake, SellDispose, store
  <2>3. QED
    BY <2>1, <2>2
<1>5. th'[u].pc # "sell_pay"
  <2>1. ASSUME NEW h, Goto(u, h)
        PROVE  th'[u] = h
    BY <1>1, <2>1 DEF Goto
  <2>2. CASE \E d \in DocId : handle_dispose(u, d)
    BY <1>2, <2>2 DEF handle_dispose
  <2>3. CASE (\E d \in DocId : BuyFind(u, d)) \/ BuyMoney(u) \/ BuyTake(u) \/ BuyUndo(u)
    <3>1. \/ Goto(u, CheckBust)
          \/ \E d, p : Goto(u, [pc |-> "buy_count", doc_id |-> d, base_price |-> p])
          \/ \E d, m : Goto(u, [pc |-> "buy_take", doc_id |-> d, money |-> m])
          \/ \E x, m : Goto(u, [pc |-> "buy_move", slot |-> x, money |-> m])
      BY <2>3 DEF BuyFind, BuyMoney, BuyTake, BuyUndo
    <3>2. ASSUME NEW d, NEW p, Goto(u, [pc |-> "buy_count", doc_id |-> d, base_price |-> p])
          PROVE  th'[u].pc = "buy_count"
      BY <1>1, <3>2 DEF Goto
    <3>3. ASSUME NEW d, NEW m, Goto(u, [pc |-> "buy_take", doc_id |-> d, money |-> m])
          PROVE  th'[u].pc = "buy_take"
      BY <1>1, <3>3 DEF Goto
    <3>4. ASSUME NEW x, NEW m, Goto(u, [pc |-> "buy_move", slot |-> x, money |-> m])
          PROVE  th'[u].pc = "buy_move"
      BY <1>1, <3>4 DEF Goto
    <3>5. CASE Goto(u, CheckBust)
      BY <2>1, <3>5, ReadyIdle
    <3>6. QED
      BY <3>1, <3>2, <3>3, <3>4, <3>5
  <2>4. CASE BuyCount(u)
    <3>1. th[u].pc \in CountPc
      BY <2>4 DEF BuyCount, At, CountPc
    <3>2. [th[u] EXCEPT !.pc = "buy_money"].pc = "buy_money"
      BY <1>1, <3>1, CountOn DEF CountPc
    <3>3. QED
      BY <2>1, <2>4, <3>2, ReadyIdle DEF BuyCount
  <2>5. CASE BustMoney(u) \/ BustCount(u)
    BY <2>1, <2>5 DEF BustMoney, BustCount, Ready
  <2>6. CASE \E n \in NpcId, ids \in SUBSET DocId : SellFind(u, n, ids)
    BY <2>1, <2>6 DEF SellFind
  <2>7. CASE SellTake(u)
    <3>1. \/ Goto(u, Ready)
          \/ \E x, b : Goto(u, [pc |-> "sell_dispose", todo |-> x, bounty |-> b])
      BY <2>7 DEF SellTake
    <3>2. ASSUME NEW x, NEW b, Goto(u, [pc |-> "sell_dispose", todo |-> x, bounty |-> b])
          PROVE  th'[u].pc = "sell_dispose"
      BY <1>1, <3>2 DEF Goto
    <3>3. CASE Goto(u, Ready)
      BY <2>1, <3>3, ReadyIdle
    <3>4. QED
      BY <3>1, <3>2, <3>3
  <2>8. CASE SellCheck(u) \/ SellDispose(u)
    <3>1. CASE SellCheck(u)
      <4>1. PICK d : \/ Goto(u, Ready)
                     \/ Goto(u, [th[u] EXCEPT !.todo = @ \ {d},
                                              !.tag_union = @ \cup sandbox[u][d]])
        BY <3>1 DEF SellCheck
      <4>2. th[u] \in Checking
        BY <1>1, <3>1 DEF HandlerState, Checking, SellCheck, At
      <4>3. [th[u] EXCEPT !.todo = @ \ {d}, !.tag_union = @ \cup sandbox[u][d]].pc
               = "sell_check"
        BY <4>2 DEF Checking
      <4>4. QED
        BY <2>1, <4>1, <4>3, ReadyIdle
    <3>2. CASE SellDispose(u)
      <4>1. PICK d : Goto(u, [th[u] EXCEPT !.todo = @ \ {d}])
        BY <3>2 DEF SellDispose
      <4>2. th[u].pc = "sell_dispose" /\ th[u].todo \in SUBSET DocId
        BY <1>1, <3>2, HandlerElim DEF SellDispose, At
      <4>3. PICK D \in SUBSET DocId : D = th[u].todo \ {d}
        BY <4>2
      <4>4. [th[u] EXCEPT !.todo = D].pc = "sell_dispose"
        BY <1>1, <4>2, DisposeOn
      <4>5. QED
        BY <2>1, <4>1, <4>3, <4>4
    <3>3. QED
      BY <2>8, <3>1, <3>2
  <2>9. QED
    BY <2>2, <2>3, <2>4, <2>5, <2>6, <2>7, <2>8
<1>6. QED
  BY <1>2, <1>3, <1>4, <1>5, EmptiedKept

\* A file arrives in the folder of a burned player only with a payment to come.
LEMMA MoveKeepsEmptied ==
    ASSUME TradeTypeOK, NEW u \in User, Solvent(u), Emptied(u), BuyMove(u)
    PROVE  Solvent(u)' /\ Emptied(u)'
<1>1. /\ th[u] \in HandlerState /\ th[u].pc \in MovePc /\ th[u].pc = "buy_move"
      /\ raid' = raid /\ th \in [User -> HandlerState]
  BY DEF BuyMove, At, MovePc, TradeTypeOK
<1>2. ASSUME NEW p \in MovePc, Goto(u, [th[u] EXCEPT !.pc = p])
      PROVE  th'[u].pc = p
  <2>1. th'[u] = [th[u] EXCEPT !.pc = p]
    BY <1>1, <1>2 DEF Goto
  <2>2. QED
    BY <1>1, <2>1, MoveOn
<1>3. users_dat' = users_dat
  BY DEF BuyMove, sandbox_buy, store
<1>4. CASE Goto(u, [th[u] EXCEPT !.pc = "buy_pay"])
  <2>1. th'[u].pc = "buy_pay"
    BY <1>2, <1>4 DEF MovePc
  <2>2. QED
    BY <1>3, <2>1 DEF Solvent, Emptied
<1>5. CASE Goto(u, [th[u] EXCEPT !.pc = "buy_undo"]) /\ UNCHANGED store
  <2>1. th'[u].pc = "buy_undo"
    BY <1>2, <1>5 DEF MovePc
  <2>2. sandbox' = sandbox
    BY <1>5 DEF store
  <2>3. QED
    BY <1>1, <1>3, <2>1, <2>2, EmptiedKept
<1>6. QED
  BY <1>4, <1>5 DEF BuyMove

\* The calls that write the record.
LEMMA RecordKeepsEmptied ==
    ASSUME TradeTypeOK, NEW u \in User, Affords(u), Solvent(u), Emptied(u),
           BuyPay(u) \/ BustBurn(u) \/ SellMoney(u) \/ SellPay(u)
    PROVE  Solvent(u)' /\ Emptied(u)'
<1>1. /\ th[u] \in HandlerState /\ th \in [User -> HandlerState]
      /\ users_dat \in [User -> Int] /\ users_dat[u] \in Int /\ BURNED = -1
  BY DEF TradeTypeOK, BURNED
<1>2. raid' = raid /\ sandbox' = sandbox
  BY DEF BuyPay, BustBurn, SellMoney, SellPay, OthersStay, userdb_burn_at, userdb_update_at,
         store
<1>3. CASE BuyPay(u)
  <2>1. th[u].slot \in OfferShown /\ th[u].money \in Int
    BY <1>1, <1>3, HandlerElim DEF BuyPay, At, MovePc
  <2>2. th[u].slot.base_price \in Int
    <3>1. Price \subseteq Int
      BY TradeAssumption
    <3>2. QED
      BY <2>1, <3>1 DEF OfferShown
  <2>3. th[u].slot.base_price <= th[u].money
    BY <1>3 DEF Affords, BuyPay, At, MovePc
  <2>4. users_dat'[u] = th[u].money - th[u].slot.base_price /\ th'[u].pc = "bust_money"
    BY <1>1, <1>3 DEF BuyPay, userdb_update_at, Goto, CheckBust
  <2>5. users_dat'[u] \in Int /\ users_dat'[u] >= 0
    <3>1. \A a, b \in Int : b <= a => a - b \in Int /\ a - b >= 0
      OBVIOUS
    <3>2. QED
      BY <2>1, <2>2, <2>3, <2>4, <3>1, Zenon
  <2>6. users_dat'[u] >= BURNED /\ users_dat'[u] # BURNED
    BY <1>1, <2>5
  <2>7. QED
    BY <2>4, <2>6 DEF Solvent, Emptied
<1>4. CASE BustBurn(u)
  <2>1. users_dat'[u] = BURNED /\ th'[u].pc = "gone"
    BY <1>1, <1>4 DEF BustBurn, userdb_burn_at, userdb_update_at, Goto
  <2>2. users_dat'[u] >= BURNED
    BY <1>1, <2>1
  <2>3. QED
    BY <2>1, <2>2 DEF Solvent, Emptied
<1>5. CASE SellMoney(u)
  <2>1. th[u].pc = "sell_dispose" /\ th[u].bounty \in Bounty
    BY <1>1, <1>5, HandlerElim DEF SellMoney, At
  <2>2. th[u].bounty \in Nat
    <3>1. Bounty \subseteq Nat
      BY TradeAssumption
    <3>2. QED
      BY <2>1, <3>1
  <2>3. PICK m : m = users_dat[u] + th[u].bounty /\ Goto(u, [pc |-> "sell_pay", money |-> m])
    BY <1>5 DEF SellMoney
  <2>4. th'[u].pc = "sell_pay" /\ th'[u].money = m
    BY <1>1, <2>3 DEF Goto
  <2>5. users_dat'[u] = users_dat[u]
    BY <1>5 DEF SellMoney, store
  <2>6. m \in Int /\ m >= BURNED /\ (users_dat[u] # BURNED => m # BURNED)
    <3>1. \A a \in Int, b \in Nat :
             a >= -1 => a + b \in Int /\ a + b >= -1 /\ (a # -1 => a + b # -1)
      OBVIOUS
    <3>2. users_dat[u] >= -1
      BY <1>1 DEF Solvent
    <3>3. QED
      BY <1>1, <2>2, <2>3, <3>1, <3>2
  <2>7. QED
    BY <1>2, <2>1, <2>4, <2>5, <2>6 DEF Solvent, Emptied, Purging
<1>6. CASE SellPay(u)
  <2>1. th[u].pc = "sell_pay" /\ users_dat'[u] = th[u].money /\ th'[u].pc = "ready"
    BY <1>1, <1>6 DEF SellPay, At, userdb_update_at, Goto, Ready
  <2>2. QED
    BY <1>2, <2>1 DEF Solvent, Emptied, Purging
<1>7. QED
  BY <1>3, <1>4, <1>5, <1>6
\* The other threads change neither a record nor a folder of a player.
LEMMA EventsIdle ==
    ASSUME Spawner \/ World \/ UNCHANGED tvars
    PROVE  UNCHANGED <<th, users_dat, sandbox, raid>>
<1>1. CASE Spawner
  BY <1>1 DEF Spawner, SpawnWrite, SpawnAdd, RemoveFile, HandlersStay, store,
              master_write_doc, master_remove_doc
<1>2. CASE World
  BY <1>2 DEF World, Traffic, SpawnChoose, AgeMarket, AgeNpcs, NpcSpawn, Leak, Recover,
              HandlersStay, store
<1>3. CASE UNCHANGED tvars
  BY <1>3 DEF tvars, store
<1>4. QED
  BY <1>1, <1>2, <1>3

\* burn_user_by_key marks the account first and empties the folder next.
LEMMA RaidKeepsEmptied ==
    ASSUME TradeTypeOK, NEW v \in User, Solvent(v), Emptied(v),
           (\E u \in User : RaidBurn(u)) \/ RaidPurge
    PROVE  Solvent(v)' /\ Emptied(v)'
<1>1. /\ users_dat \in [User -> Int] /\ BURNED = -1
      /\ sandbox \in [User -> Table(DocId, SUBSET Tag)]
  BY DEF TradeTypeOK, BURNED
<1>2. th' = th
  BY DEF RaidBurn, RaidPurge
<1>3. ASSUME NEW u \in User, RaidBurn(u)
      PROVE  Solvent(v)' /\ Emptied(v)'
  <2>1. /\ users_dat' = [users_dat EXCEPT ![u] = BURNED] /\ sandbox' = sandbox
        /\ raid' = [pc |-> "purge", key |-> u] /\ raid.pc = "idle"
    BY <1>3 DEF RaidBurn, userdb_burn_at, userdb_update_at
  <2>2. users_dat'[v] >= BURNED
    BY <1>1, <2>1 DEF Solvent
  <2>3. CASE u = v
    BY <1>2, <2>1, <2>2, <2>3 DEF Solvent, Emptied, Purging
  <2>4. CASE u # v
    <3>1. users_dat'[v] = users_dat[v]
      BY <1>1, <2>1, <2>4
    <3>2. QED
      BY <1>2, <2>1, <2>2, <3>1 DEF Solvent, Emptied, Purging
  <2>5. QED
    BY <2>3, <2>4
<1>4. CASE RaidPurge
  <2>1. /\ raid.pc = "purge" /\ users_dat' = users_dat
        /\ sandbox' = [sandbox EXCEPT ![raid.key]
                          = Vacate(sandbox[raid.key], DOMAIN sandbox[raid.key])]
    BY <1>4 DEF RaidPurge, sandbox_purge_user
  <2>2. Solvent(v)'
    BY <1>2, <2>1 DEF Solvent
  <2>3. CASE raid.key = v
    <3>1. sandbox'[v] = Vacate(sandbox[v], DOMAIN sandbox[v])
      BY <1>1, <2>1, <2>3
    <3>2. sandbox[v] \in Table(DocId, SUBSET Tag)
      BY <1>1
    <3>3. \A S : DOMAIN Vacate(sandbox[v], S) = DOMAIN sandbox[v] \ S
      BY <3>2, FileTable, Zenon
    <3>4. DOMAIN sandbox'[v] = {}
      BY <3>1, <3>3
    <3>5. QED
      BY <2>2, <3>4 DEF Emptied
  <2>4. CASE raid.key # v
    <3>1. sandbox'[v] = sandbox[v]
      BY <1>1, <2>1, <2>4
    <3>2. QED
      BY <1>2, <2>1, <2>2, <2>4, <3>1 DEF Emptied, Purging
  <2>5. QED
    BY <2>3, <2>4
<1>5. QED
  BY <1>3, <1>4

LEMMA BurnStep ==
    ASSUME TradeTypeOK, CustodyInv, [TradeNext]_tvars, NEW v \in User, BurnInv(v)
    PROVE  BurnInv(v)'
<1>1. Kinds /\ Affords(v) /\ Solvent(v) /\ Emptied(v)
  BY StepKinds DEF BurnInv
<1>2. ASSUME NEW u \in User, Request(u) \/ Handler(u), u # v
      PROVE  BurnInv(v)'
  <2>1. /\ th'[v] = th[v] /\ users_dat'[v] = users_dat[v]
        /\ sandbox'[v] = sandbox[v] /\ raid' = raid
    BY <1>2, OthersIdle
  <2>2. QED
    BY <1>1, <2>1, AffordsIdle, EmptiedIdle DEF BurnInv
<1>3. ASSUME Request(v)
      PROVE  BurnInv(v)'
  <2>1. Affords(v)'
    <3>1. ASSUME NEW d \in DocId, handle_dispose(v, d)
          PROVE  Affords(v)'
      <4>1. th'[v] = th[v]
        BY <3>1 DEF handle_dispose
      <4>2. QED
        BY <1>1, <4>1, AffordsIdle
    <3>2. QED
      BY <1>1, <1>3, <3>1, BuyFindAffords, OtherAffords DEF Request
  <2>2. Solvent(v)' /\ Emptied(v)'
    BY <1>1, <1>3, CallsKeepEmptied DEF Request
  <2>3. QED
    BY <2>1, <2>2 DEF BurnInv
<1>4. ASSUME Handler(v)
      PROVE  BurnInv(v)'
  <2>1. Affords(v)'
    <3>1. CASE BuyCount(v) \/ BuyMoney(v) \/ BuyTake(v) \/ BuyMove(v)
      BY <1>1, <3>1, BuyCountAffords, BuyMoneyAffords, BuyTakeAffords, BuyMoveAffords
    <3>2. CASE ~ (BuyCount(v) \/ BuyMoney(v) \/ BuyTake(v) \/ BuyMove(v))
      BY <1>4, <3>2, OtherAffords DEF Handler
    <3>3. QED
      BY <3>1, <3>2
  <2>2. Solvent(v)' /\ Emptied(v)'
    <3>1. CASE BuyMove(v) \/ BuyPay(v) \/ BustBurn(v) \/ SellMoney(v) \/ SellPay(v)
      BY <1>1, <3>1, MoveKeepsEmptied, RecordKeepsEmptied
    <3>2. CASE ~ (BuyMove(v) \/ BuyPay(v) \/ BustBurn(v) \/ SellMoney(v) \/ SellPay(v))
      BY <1>1, <1>4, <3>2, CallsKeepEmptied DEF Handler
    <3>3. QED
      BY <3>1, <3>2
  <2>3. QED
    BY <2>1, <2>2 DEF BurnInv
<1>5. CASE Spawner \/ World \/ UNCHANGED tvars
  <2>1. th' = th /\ users_dat' = users_dat /\ sandbox' = sandbox /\ raid' = raid
    BY <1>5, EventsIdle
  <2>2. QED
    BY <1>1, <2>1, AffordsIdle, EmptiedIdle DEF BurnInv
<1>6. CASE (\E u \in User : RaidBurn(u)) \/ RaidPurge
  <2>1. th' = th
    BY <1>6 DEF RaidBurn, RaidPurge
  <2>2. Affords(v)'
    BY <1>1, <2>1, AffordsIdle
  <2>3. Solvent(v)' /\ Emptied(v)'
    BY <1>1, <1>6, RaidKeepsEmptied
  <2>4. QED
    BY <2>2, <2>3 DEF BurnInv
<1>7. QED
  BY <1>2, <1>3, <1>4, <1>5, <1>6 DEF TradeNext

LEMMA BurnStart ==
    ASSUME TradeInit, NEW v \in User
    PROVE  BurnInv(v)
<1>1. th[v] = [pc |-> "ready"] /\ sandbox[v] = [d \in {} |-> {}] /\ users_dat[v] = INITIAL_MONEY
  BY DEF TradeInit
<1>2. th[v].pc = "ready" /\ DOMAIN sandbox[v] = {} /\ users_dat[v] >= BURNED
  BY <1>1, TradeAssumption DEF BURNED
<1>3. QED
  BY <1>2 DEF BurnInv, Affords, Solvent, Emptied, Asks, CountPc, MovePc

\* Whatever a player's handler was doing when burn_user_by_key marked the account and
\* emptied the folder, it leaves no file behind: a purchase or a sale that ends after
\* the raid writes money to the record (so that it is not burned any more: that is
\* BurnedForever, which the code breaks), and never the mark itself, since the price it
\* pays is the one it compared with the money it read.  A document id that came back at
\* another price would break this, hence the condition on the seeds.
THEOREM BurnedLeftEmpty ==
    ASSUME SeedsApart
    PROVE  TradeSpec => []BurnedHoldNothing
<1> DEFINE Burns == \A v \in User : BurnInv(v)
<1>1. TradeInit => Burns
  BY BurnStart
<1>2. TradeTypeOK /\ CustodyInv /\ Burns /\ [TradeNext]_tvars => Burns'
  BY BurnStep
<1>3. Burns => BurnedHoldNothing
  BY DEF BurnInv, Emptied, Purging, BurnedHoldNothing, At
<1> HIDE DEF Burns
<1>4. QED
  BY <1>1, <1>2, <1>3, CustodyInvariant, PTL DEF TradeSpec
-----------------------------------------------------------------------------
\* Trade implements Exchange: what the proof must know of a state.

\* What a purchase keeps of the record is what the record says, it has room for the
\* document, and a player is burned by check_bankruptcy with an empty purse and an empty
\* folder only.
InStep(u) ==
    /\ th[u].pc # "gone" => users_dat[u] >= 0
    /\ th[u].pc \in {"buy_take", "buy_move", "buy_pay"} => th[u].money = users_dat[u]
    /\ th[u].pc = "sell_pay" => th[u].money >= 0
    /\ th[u].pc \in {"buy_money", "buy_take"} =>
          Cardinality(DOMAIN sandbox[u]) < MAX_INVEN_SIZE
    /\ th[u].pc \in {"bust_count", "bust_burn"} => users_dat[u] = 0
    /\ th[u].pc = "bust_burn" => DOMAIN sandbox[u] = {}
    /\ IsFiniteSet(DOMAIN sandbox[u])

\* A sale has found the documents it has checked in the folder, and has collected no
\* tag that they do not have.
Checked(u) ==
    th[u].pc = "sell_check" =>
        /\ th[u].ids # {} /\ th[u].todo \subseteq th[u].ids
        /\ th[u].ids \ th[u].todo \subseteq DOMAIN sandbox[u]
        /\ \A t \in th[u].tag_union :
              \E d \in th[u].ids \ th[u].todo : t \in sandbox[u][d]

\* None of them has a tag that was frozen when the sale began and is frozen still.
Guarded(u) ==
    th[u].pc = "sell_check" =>
        \A d \in th[u].ids \ th[u].todo : sandbox[u][d] \cap barred[u] = {}

\* Nor has the document that the event thread is about to list.
SpawnGuarded ==
    ev.pc \in {"spawn_write", "spawn_add"} => ev.tags \cap barred[Event] = {}

\* The request a sale is for is still the one it read, if it is there at all.
SameRequest(u) ==
    th[u].pc = "sell_check" =>
        /\ th[u].npc_id \notin (g_npc_id_counter + 1) .. NPC_LIMIT
        /\ \A i \in NpcSlotsOf(th[u].npc_id) : g_npc[i].required_tags = th[u].required_tags

\* One slot for each request, and none for an id still to be given out.
SoleRequests ==
    /\ \A i, j \in DOMAIN g_npc : g_npc[i].npc_id = g_npc[j].npc_id => i = j
    /\ \A i \in DOMAIN g_npc : g_npc[i].npc_id \notin (g_npc_id_counter + 1) .. NPC_LIMIT

\* The ids of the seeded requests are apart from one another and from those of the
\* spawner.
NpcsApart ==
    /\ \A i, j \in DOMAIN SeedNpcs : SeedNpcs[i].npc_id = SeedNpcs[j].npc_id => i = j
    /\ \A i \in DOMAIN SeedNpcs : SeedNpcs[i].npc_id \notin 1 .. NPC_LIMIT

Local(u) == InStep(u) /\ Checked(u)

\* A raid writes to the record and the folder of its victim whatever the victim's handler
\* is doing: what a handler may rely on holds of the players that were not raided.
ExchangeInv ==
    /\ FrozenFlagMatchesMask /\ SoleRequests
    /\ raid.pc = "purge" => raid.key \in raided
    /\ DOMAIN barred = UnderWay
    /\ SpawnGuarded
    /\ \A u \in User : SameRequest(u)
    /\ \A u \in User \ raided : Local(u) /\ Guarded(u)

\* What Exchange sees of a player: money and documents, with what a thread has yet to
\* write counted as done.
LEMMA SeenNow ==
    ASSUME NEW u
    PROVE  /\ th[u].pc \in MovePc => Purse(u) = users_dat[u] - th[u].slot.base_price
           /\ th[u].pc = "sell_dispose" => Purse(u) = users_dat[u] + th[u].bounty
           /\ th[u].pc = "sell_pay" => Purse(u) = th[u].money
           /\ th[u].pc \notin MovePc \cup {"sell_dispose", "sell_pay"} =>
                 Purse(u) = users_dat[u]
           /\ th[u].pc = "sell_dispose" => Holds(u) = Vacate(sandbox[u], th[u].todo)
           /\ th[u].pc # "sell_dispose" => Holds(u) = sandbox[u]
<1>1. PICK p : p = th[u].pc
  OBVIOUS
<1>2. QED
  BY <1>1 DEF Purse, Holds, MovePc

LEMMA SeenNext ==
    ASSUME NEW u
    PROVE  /\ th'[u].pc \in MovePc => Purse(u)' = users_dat'[u] - th'[u].slot.base_price
           /\ th'[u].pc = "sell_dispose" => Purse(u)' = users_dat'[u] + th'[u].bounty
           /\ th'[u].pc = "sell_pay" => Purse(u)' = th'[u].money
           /\ th'[u].pc \notin MovePc \cup {"sell_dispose", "sell_pay"} =>
                 Purse(u)' = users_dat'[u]
           /\ th'[u].pc = "sell_dispose" => Holds(u)' = Vacate(sandbox'[u], th'[u].todo)
           /\ th'[u].pc # "sell_dispose" => Holds(u)' = sandbox'[u]
BY DEF Purse, Holds, MovePc

\* Exchange sees nothing of a step.
Unseen(u) == Purse(u)' = Purse(u) /\ Holds(u)' = Holds(u)

LEMMA Goes ==
    ASSUME TradeTypeOK, NEW u \in User, NEW h, Goto(u, h)
    PROVE  th'[u] = h
BY DEF TradeTypeOK, Goto

LEMMA LocalTypes ==
    ASSUME TradeTypeOK, NEW u \in User
    PROVE  /\ th[u] \in HandlerState /\ users_dat[u] \in Int
           /\ sandbox[u] \in Table(DocId, SUBSET Tag)
BY DEF TradeTypeOK

\* A player of whom nothing changes.
LEMMA LocalIdle ==
    ASSUME NEW u, th'[u] = th[u], users_dat'[u] = users_dat[u], sandbox'[u] = sandbox[u]
    PROVE  (Local(u) => Local(u)') /\ Unseen(u)
BY DEF Local, InStep, Checked, Unseen, Purse, Holds

\* The thread goes on to a point that keeps nothing, and has written nothing.
LEMMA LocalEnds ==
    ASSUME NEW u, Local(u), th'[u].pc \in {"ready", "bust_money", "buy_count"},
           th[u].pc \notin MovePc \cup {"gone", "sell_dispose", "sell_pay"},
           users_dat'[u] = users_dat[u], sandbox'[u] = sandbox[u]
    PROVE  Local(u)' /\ Unseen(u)
<1>1. Local(u)'
  BY DEF Local, InStep, Checked
<1>2. QED
  BY <1>1, SeenNow, SeenNext DEF Unseen, MovePc

-----------------------------------------------------------------------------
\* What the calls of a purchase do to the player.

LEMMA BuyReads ==
    ASSUME TradeTypeOK, NEW u \in User, Local(u),
           (\E d \in DocId : BuyFind(u, d)) \/ BuyCount(u) \/ BuyMoney(u)
    PROVE  Local(u)' /\ Unseen(u)
<1>1. /\ th[u] \in HandlerState /\ users_dat' = users_dat /\ sandbox' = sandbox
      /\ th[u].pc \in {"ready", "buy_count", "buy_money"}
  BY LocalTypes DEF BuyFind, BuyCount, BuyMoney, store, At
<1>2. CASE \E d \in DocId : BuyFind(u, d)
  <2>1. \/ Goto(u, CheckBust)
        \/ \E d, p : Goto(u, [pc |-> "buy_count", doc_id |-> d, base_price |-> p])
    BY <1>2 DEF BuyFind
  <2>2. ASSUME NEW d, NEW p, Goto(u, [pc |-> "buy_count", doc_id |-> d, base_price |-> p])
        PROVE  th'[u].pc = "buy_count"
    BY <2>2, Goes
  <2>3. th'[u].pc \in {"buy_count", "bust_money"}
    BY <2>1, <2>2, Goes, ReadyIdle
  <2>4. QED
    BY <1>1, <2>3, LocalEnds DEF MovePc
<1>3. CASE BuyCount(u)
  <2>1. CASE sandbox_count(u) >= MAX_INVEN_SIZE
    BY <1>1, <1>3, <2>1, Goes, ReadyIdle, LocalEnds DEF BuyCount, MovePc
  <2>2. CASE ~ (sandbox_count(u) >= MAX_INVEN_SIZE)
    <3>1. th'[u].pc = "buy_money" /\ th[u].pc = "buy_count"
      BY <1>1, <1>3, <2>2, Goes, CountOn DEF BuyCount, At, CountPc
    <3>2. Cardinality(DOMAIN sandbox[u]) < MAX_INVEN_SIZE
      <4>1. IsFiniteSet(DOMAIN sandbox[u])
        BY DEF Local, InStep
      <4>2. PICK n : n = Cardinality(DOMAIN sandbox[u]) /\ n \in Nat
        BY <4>1, FS_CardinalityType
      <4>3. MAX_INVEN_SIZE \in Nat
        BY TradeAssumption
      <4>4. QED
        BY <2>2, <4>2, <4>3 DEF sandbox_count
    <3>3. Local(u)'
      BY <1>1, <3>1, <3>2 DEF Local, InStep, Checked
    <3>4. QED
      BY <1>1, <3>1, <3>3, SeenNow, SeenNext DEF Unseen, MovePc
  <2>3. QED
    BY <2>1, <2>2
<1>4. CASE BuyMoney(u)
  <2>1. CASE users_dat[u] < th[u].base_price
    BY <1>1, <1>4, <2>1, Goes, ReadyIdle, LocalEnds DEF BuyMoney, MovePc
  <2>2. CASE ~ (users_dat[u] < th[u].base_price)
    <3>1. th'[u].pc = "buy_take" /\ th'[u].money = users_dat[u] /\ th[u].pc = "buy_money"
      BY <1>1, <1>4, <2>2, Goes DEF BuyMoney, At
    <3>2. Local(u)'
      BY <1>1, <3>1 DEF Local, InStep, Checked
    <3>3. QED
      BY <1>1, <3>1, <3>2, SeenNow, SeenNext DEF Unseen, MovePc
  <2>3. QED
    BY <2>1, <2>2
<1>5. QED
  BY <1>2, <1>3, <1>4

\* The purchase itself: the price is the one the buyer was told, and fits the money on
\* record; there is room for the document.
LEMMA BuyTakes ==
    ASSUME TradeTypeOK, NEW u \in User, Local(u), Affords(u), BuyTake(u)
    PROVE  /\ Local(u)'
           /\ ~ Passes(u)' => Unseen(u)
           /\ Passes(u)' =>
                 /\ Purse(u) \in Int /\ th'[u].slot.base_price \in Int
                 /\ th'[u].slot.base_price <= Purse(u)
                 /\ Cardinality(DOMAIN Holds(u)) < MAX_INVEN_SIZE
                 /\ Purse(u)' = Purse(u) - th'[u].slot.base_price
                 /\ Holds(u)' = Holds(u)
<1>1. /\ th[u] \in HandlerState /\ users_dat[u] \in Int /\ th[u].pc = "buy_take"
      /\ users_dat' = users_dat /\ sandbox' = sandbox
  BY LocalTypes DEF BuyTake, store, At
<1>2. CASE Goto(u, CheckBust)
  <2>1. th'[u].pc = "bust_money"
    BY <1>2, Goes, ReadyIdle
  <2>2. Local(u)' /\ Unseen(u)
    BY <1>1, <2>1, LocalEnds DEF MovePc
  <2>3. QED
    BY <2>1, <2>2 DEF Passes, Passing
<1>3. ASSUME NEW i \in market_find(th[u].doc_id),
             Goto(u, [pc |-> "buy_move", slot |-> Shown(g_market[i]), money |-> th[u].money])
      PROVE  /\ Local(u)' /\ Passes(u)'
             /\ Purse(u) \in Int /\ th'[u].slot.base_price \in Int
             /\ th'[u].slot.base_price <= Purse(u)
             /\ Cardinality(DOMAIN Holds(u)) < MAX_INVEN_SIZE
             /\ Purse(u)' = Purse(u) - th'[u].slot.base_price
             /\ Holds(u)' = Holds(u)
  <2>1. PICK d \in DocId : d = th[u].doc_id
    BY <1>1, HandlerElim
  <2>2. i \in SlotsOf(d) /\ i \in DOMAIN g_market /\ g_market[i].doc_id = d
    BY <2>1 DEF market_find, FirstOf, SlotsOf
  <2>3. g_market[i] \in MarketSlot
    BY <2>2, TableElim DEF TradeTypeOK, TypeOK
  <2>4. g_market[i].base_price \in Price /\ Quote(d, g_market[i].base_price)
    BY <2>2, <2>3 DEF MarketSlot, Quote
  <2>5. Asks(u, d)
    BY <1>1, <2>1 DEF Asks
  <2>6. g_market[i].base_price <= th[u].money /\ th[u].money = users_dat[u]
    BY <1>1, <2>4, <2>5 DEF Affords, Local, InStep
  <2>7. /\ th'[u].pc = "buy_move" /\ th'[u].slot = Shown(g_market[i])
        /\ th'[u].money = th[u].money
    BY <1>3, Goes
  <2>8. th'[u].slot.base_price = g_market[i].base_price
    BY <2>2, <2>7 DEF Shown
  <2>9. Local(u)'
    BY <1>1, <2>6, <2>7 DEF Local, InStep, Checked
  <2>10. Purse(u) = users_dat[u] /\ Holds(u) = sandbox[u]
    BY <1>1, SeenNow DEF MovePc
  <2>11. Purse(u)' = users_dat[u] - g_market[i].base_price /\ Holds(u)' = sandbox[u]
    BY <1>1, <2>7, <2>8, SeenNext DEF MovePc
  <2>12. Cardinality(DOMAIN sandbox[u]) < MAX_INVEN_SIZE
    BY <1>1 DEF Local, InStep
  <2>13. Passes(u)'
    BY <2>7 DEF Passes, Passing
  <2>14. g_market[i].base_price \in Int
    BY <2>4, TradeAssumption
  <2>15. QED
    BY <1>1, <2>6, <2>8, <2>9, <2>10, <2>11, <2>12, <2>13, <2>14
<1>4. QED
  BY <1>2, <1>3 DEF BuyTake

\* The file is moved: it is there, with the tags shown.  Or the rename fails, and the
\* purchase is to be undone.
LEMMA BuyMoves ==
    ASSUME TradeTypeOK, CustodyInv, NEW u \in User, Local(u), BuyMove(u)
    PROVE  /\ Local(u)'
           /\ Passes(u)' => Unseen(u)
           /\ ~ Passes(u)' => /\ Purse(u)' = Purse(u)
                              /\ Holds(u)' = Fill(Holds(u), th[u].slot.doc_id, th[u].slot.tags)
<1>1. /\ th[u] \in HandlerState /\ users_dat[u] \in Int /\ th[u].pc = "buy_move"
      /\ th[u].pc \in MovePc /\ sandbox[u] \in Table(DocId, SUBSET Tag)
      /\ sandbox \in [User -> Table(DocId, SUBSET Tag)]
  BY LocalTypes DEF BuyMove, At, MovePc, TradeTypeOK
<1>2. PICK d \in DocId, T \in SUBSET Tag : d = th[u].slot.doc_id /\ T = th[u].slot.tags
  BY <1>1, HandlerElim DEF OfferShown
<1>3. CASE sandbox_buy(u, d) /\ Goto(u, [th[u] EXCEPT !.pc = "buy_pay"])
  <2>1. d \in DOMAIN master /\ master[d] = T
    <3>1. InPassage(u, d)
      BY <1>1, <1>2 DEF InPassage
    <3>2. Shows(d, T)
      BY <1>2, <3>1 DEF Shows
    <3>3. QED
      BY <3>2 DEF CustodyInv, DocBacked, Backed
  <2>2. th'[u].pc = "buy_pay" /\ th'[u].slot = th[u].slot /\ th'[u].money = th[u].money
    <3>1. th'[u] = [th[u] EXCEPT !.pc = "buy_pay"]
      BY <1>3, Goes
    <3>2. "buy_pay" \in MovePc
      BY DEF MovePc
    <3>3. QED
      BY <1>1, <3>1, <3>2, MoveOn
  <2>3. users_dat' = users_dat /\ sandbox'[u] = Fill(sandbox[u], d, T)
    BY <1>1, <1>3, <2>1 DEF sandbox_buy
  <2>4. DOMAIN sandbox'[u] = DOMAIN sandbox[u] \cup {d}
    <3>1. DOMAIN Fill(sandbox[u], d, T) = DOMAIN sandbox[u] \cup {d}
      BY <1>1, FileTable
    <3>2. QED
      BY <2>3, <3>1
  <2>5. IsFiniteSet(DOMAIN sandbox'[u])
    BY <2>4, FS_AddElement DEF Local, InStep
  <2>6. Local(u)'
    BY <1>1, <2>2, <2>3, <2>5 DEF Local, InStep, Checked
  <2>7. ~ Passes(u)'
    BY <2>2 DEF Passes, Passing
  <2>8. QED
    BY <1>1, <1>2, <2>2, <2>3, <2>6, <2>7, SeenNow, SeenNext DEF MovePc
<1>4. CASE Goto(u, [th[u] EXCEPT !.pc = "buy_undo"]) /\ UNCHANGED store
  <2>1. th'[u].pc = "buy_undo" /\ th'[u].slot = th[u].slot
    <3>1. th'[u] = [th[u] EXCEPT !.pc = "buy_undo"]
      BY <1>4, Goes
    <3>2. "buy_undo" \in MovePc
      BY DEF MovePc
    <3>3. QED
      BY <1>1, <3>1, <3>2, MoveOn
  <2>2. users_dat' = users_dat /\ sandbox' = sandbox
    BY <1>4 DEF store
  <2>3. Local(u)'
    BY <1>1, <2>1, <2>2 DEF Local, InStep, Checked
  <2>4. Passes(u)'
    BY <2>1 DEF Passes, Passing
  <2>5. QED
    BY <1>1, <2>1, <2>2, <2>3, <2>4, SeenNow, SeenNext DEF Unseen, MovePc
<1>5. QED
  BY <1>2, <1>3, <1>4 DEF BuyMove

\* What was to be paid is not.
LEMMA BuyUndoes ==
    ASSUME TradeTypeOK, NEW u \in User, Local(u), BuyUndo(u)
    PROVE  /\ Local(u)'
           /\ Purse(u)' = Purse(u) + th[u].slot.base_price /\ Holds(u)' = Holds(u)
<1>1. /\ th[u] \in HandlerState /\ users_dat[u] \in Int /\ th[u].pc = "buy_undo"
      /\ th[u].pc \in MovePc /\ users_dat' = users_dat /\ sandbox' = sandbox
  BY LocalTypes DEF BuyUndo, At, MovePc, store
<1>2. PICK c : c = th[u].slot.base_price /\ c \in Int
  <2>1. th[u].slot.base_price \in Price
    BY <1>1, HandlerElim DEF OfferShown
  <2>2. QED
    BY <2>1, TradeAssumption
<1>3. th'[u].pc = "bust_money"
  BY Goes, ReadyIdle DEF BuyUndo
<1>4. Local(u)'
  BY <1>1, <1>3 DEF Local, InStep, Checked
<1>5. Purse(u) = users_dat[u] - c /\ Purse(u)' = users_dat[u]
  BY <1>1, <1>2, <1>3, SeenNow, SeenNext DEF MovePc
<1>6. Holds(u)' = Holds(u)
  BY <1>1, <1>3, SeenNow, SeenNext
<1>7. QED
  BY <1>1, <1>2, <1>4, <1>5, <1>6

LEMMA BuyPays ==
    ASSUME TradeTypeOK, NEW u \in User, Local(u), Affords(u), BuyPay(u)
    PROVE  Local(u)' /\ Unseen(u)
<1>1. /\ th[u] \in HandlerState /\ users_dat[u] \in Int /\ th[u].pc = "buy_pay"
      /\ th[u].pc \in MovePc /\ users_dat \in [User -> Int] /\ sandbox' = sandbox
  BY LocalTypes DEF BuyPay, At, MovePc, TradeTypeOK, userdb_update_at
<1>2. PICK c : c = th[u].slot.base_price /\ c \in Int
  <2>1. th[u].slot.base_price \in Price
    BY <1>1, HandlerElim DEF OfferShown
  <2>2. QED
    BY <2>1, TradeAssumption
<1>3. th[u].money = users_dat[u] /\ c <= th[u].money
  BY <1>1, <1>2 DEF Local, InStep, Affords
<1>4. users_dat'[u] = users_dat[u] - c /\ th'[u].pc = "bust_money"
  BY <1>1, <1>2, <1>3, Goes, ReadyIdle DEF BuyPay, userdb_update_at
<1>5. users_dat'[u] >= 0
  BY <1>1, <1>2, <1>3, <1>4
<1>6. Local(u)'
  BY <1>1, <1>4, <1>5 DEF Local, InStep, Checked
<1>7. QED
  BY <1>1, <1>2, <1>4, <1>6, SeenNow, SeenNext DEF Unseen, MovePc

LEMMA BustReads ==
    ASSUME TradeTypeOK, NEW u \in User, Local(u), BustMoney(u) \/ BustCount(u)
    PROVE  Local(u)' /\ Unseen(u)
<1>1. /\ th[u] \in HandlerState /\ users_dat' = users_dat /\ sandbox' = sandbox
      /\ th[u].pc \in {"bust_money", "bust_count"} /\ users_dat[u] \in Int
  BY LocalTypes DEF BustMoney, BustCount, store, At
<1>2. CASE Goto(u, Ready)
  BY <1>1, <1>2, Goes, ReadyIdle, LocalEnds DEF MovePc
<1>3. CASE BustMoney(u) /\ ~ (users_dat[u] > 0)
  <2>1. th'[u].pc = "bust_count" /\ th[u].pc = "bust_money"
    BY <1>1, <1>3, Goes DEF BustMoney, At
  <2>2. users_dat[u] = 0
    BY <1>1, <1>3, <2>1 DEF Local, InStep
  <2>3. Local(u)'
    BY <1>1, <2>1, <2>2 DEF Local, InStep, Checked
  <2>4. QED
    BY <1>1, <2>1, <2>3, SeenNow, SeenNext DEF Unseen, MovePc
<1>4. CASE BustCount(u) /\ ~ (sandbox_count(u) > 0)
  <2>1. th'[u].pc = "bust_burn" /\ th[u].pc = "bust_count"
    BY <1>1, <1>4, Goes DEF BustCount, At
  <2>2. DOMAIN sandbox[u] = {}
    <3>1. IsFiniteSet(DOMAIN sandbox[u])
      BY DEF Local, InStep
    <3>2. PICK n : n = Cardinality(DOMAIN sandbox[u]) /\ n \in Nat
      BY <3>1, FS_CardinalityType
    <3>3. n = 0
      BY <1>4, <3>2 DEF sandbox_count
    <3>4. QED
      BY <3>1, <3>2, <3>3, FS_EmptySet
  <2>3. Local(u)'
    BY <1>1, <2>1, <2>2 DEF Local, InStep, Checked
  <2>4. QED
    BY <1>1, <2>1, <2>3, SeenNow, SeenNext DEF Unseen, MovePc
<1>5. QED
  BY <1>2, <1>3, <1>4 DEF BustMoney, BustCount

\* check_bankruptcy burns a player who has neither money nor documents.
LEMMA BustBurns ==
    ASSUME TradeTypeOK, NEW u \in User, Local(u), BustBurn(u)
    PROVE  /\ Local(u)'
           /\ Purse(u) = 0 /\ DOMAIN Holds(u) = {}
           /\ Purse(u)' = BURNED /\ Holds(u)' = Holds(u)
<1>1. /\ th[u].pc = "bust_burn" /\ users_dat \in [User -> Int] /\ sandbox' = sandbox
  BY DEF BustBurn, At, TradeTypeOK, userdb_burn_at, userdb_update_at
<1>2. th'[u].pc = "gone" /\ users_dat'[u] = BURNED
  BY <1>1, Goes DEF BustBurn, userdb_burn_at, userdb_update_at
<1>3. Local(u)'
  BY <1>1, <1>2 DEF Local, InStep, Checked
<1>4. users_dat[u] = 0 /\ DOMAIN sandbox[u] = {}
  BY <1>1 DEF Local, InStep
<1>5. QED
  BY <1>1, <1>2, <1>3, <1>4, SeenNow, SeenNext DEF MovePc

-----------------------------------------------------------------------------
\* What the calls of a sale, and a disposal, do to the player.

LEMMA SellReads ==
    ASSUME TradeTypeOK, NEW u \in User, Local(u),
           \/ \E n \in NpcId, ids \in SUBSET DocId : SellFind(u, n, ids)
           \/ SellCheck(u)
    PROVE  Local(u)' /\ Unseen(u)
<1>1. /\ th[u] \in HandlerState /\ users_dat' = users_dat /\ sandbox' = sandbox
      /\ th[u].pc \in {"ready", "sell_check"}
  BY LocalTypes DEF SellFind, SellCheck, store, At
<1>2. ASSUME NEW n \in NpcId, NEW ids \in SUBSET DocId, SellFind(u, n, ids)
      PROVE  Local(u)' /\ Unseen(u)
  <2>1. PICK R : Goto(u, [pc |-> "sell_check", npc_id |-> n, ids |-> ids, todo |-> ids,
                          required_tags |-> R, tag_union |-> {}])
    BY <1>2 DEF SellFind
  <2>2. /\ th'[u].pc = "sell_check" /\ th'[u].ids = ids /\ th'[u].todo = ids
        /\ th'[u].tag_union = {}
    BY <2>1, Goes
  <2>3. ids # {}
    <3>1. Cardinality({}) = 0
      BY FS_EmptySet
    <3>2. MAX_INVEN_SIZE \in Nat
      BY TradeAssumption
    <3>3. 0 \notin 1 .. MAX_INVEN_SIZE
      BY <3>2
    <3>4. Cardinality(ids) \in 1 .. MAX_INVEN_SIZE
      BY <1>2 DEF SellFind
    <3>5. QED
      BY <3>1, <3>3, <3>4
  <2>4. th[u].pc = "ready"
    BY <1>2 DEF SellFind, At
  <2>5. Local(u)'
    BY <1>1, <2>2, <2>3, <2>4 DEF Local, InStep, Checked
  <2>6. QED
    BY <1>1, <2>2, <2>4, <2>5, SeenNow, SeenNext DEF Unseen, MovePc
<1>3. CASE SellCheck(u)
  <2>1. PICK d \in FirstOf(th[u].todo) :
           Goto(u, IF ~ sandbox_has(u, d) THEN Ready
                   ELSE IF is_tag_frozen(sandbox[u][d]) THEN Ready
                   ELSE [th[u] EXCEPT !.todo = @ \ {d}, !.tag_union = @ \cup sandbox[u][d]])
    BY <1>3 DEF SellCheck
  <2>2. CASE Goto(u, Ready)
    BY <1>1, <2>2, Goes, ReadyIdle, LocalEnds DEF MovePc
  <2>3. CASE /\ sandbox_has(u, d)
             /\ Goto(u, [th[u] EXCEPT !.todo = @ \ {d}, !.tag_union = @ \cup sandbox[u][d]])
    <3>1. th[u].pc = "sell_check" /\ th[u] \in Checking
      BY <1>1, <1>3 DEF SellCheck, At, HandlerState, Checking
    <3>2. th'[u] = [th[u] EXCEPT !.todo = @ \ {d}, !.tag_union = @ \cup sandbox[u][d]]
      BY <2>3, Goes
    <3>3. /\ th'[u].pc = "sell_check" /\ th'[u].ids = th[u].ids
          /\ th'[u].todo = th[u].todo \ {d}
          /\ th'[u].tag_union = th[u].tag_union \cup sandbox[u][d]
      BY <3>1, <3>2 DEF Checking
    <3>4. d \in th[u].todo /\ d \in DOMAIN sandbox[u]
      BY <2>3 DEF FirstOf, sandbox_has
    <3>5. InStep(u)'
      BY <1>1, <3>1, <3>3 DEF Local, InStep
    <3>6. /\ th[u].ids # {} /\ th[u].todo \subseteq th[u].ids
          /\ th[u].ids \ th[u].todo \subseteq DOMAIN sandbox[u]
          /\ \A t \in th[u].tag_union :
                \E e \in th[u].ids \ th[u].todo : t \in sandbox[u][e]
      BY <3>1 DEF Local, Checked
    <3>7. th'[u].ids \ th'[u].todo = (th[u].ids \ th[u].todo) \cup {d}
      BY <3>3, <3>4, <3>6
    <3>8. Checked(u)'
      BY <1>1, <3>3, <3>4, <3>6, <3>7 DEF Checked
    <3>9. QED
      BY <1>1, <3>1, <3>3, <3>5, <3>8, SeenNow, SeenNext DEF Unseen, Local, MovePc
  <2>4. QED
    BY <2>1, <2>2, <2>3
<1>4. QED
  BY <1>2, <1>3

\* The sale itself: the request is the one the tags were compared with.
LEMMA SellTakes ==
    ASSUME TradeTypeOK, NEW u \in User, Local(u), SameRequest(u), SellTake(u)
    PROVE  /\ Local(u)'
           /\ \/ UNCHANGED vars /\ Unseen(u)
              \/ \E n \in NpcId, D \in SUBSET DocId : \E i \in npc_find(n) :
                    /\ npc_take(n)
                    /\ D = th[u].ids /\ th[u].pc = "sell_check" /\ th[u].todo = {}
                    /\ th'[u].pc = "sell_dispose"
                    /\ D # {} /\ D \subseteq DOMAIN Holds(u)
                    /\ \A t \in g_npc[i].required_tags : \E d \in D : t \in Holds(u)[d]
                    /\ Purse(u)' = Purse(u) + g_npc[i].bounty
                    /\ Holds(u)' = Vacate(Holds(u), D)
<1>1. /\ th[u] \in HandlerState /\ users_dat' = users_dat /\ sandbox' = sandbox
      /\ th[u].pc = "sell_check" /\ th[u].todo = {}
  BY LocalTypes DEF SellTake, store, At
<1>2. CASE UNCHANGED vars /\ Goto(u, Ready)
  BY <1>1, <1>2, Goes, ReadyIdle, LocalEnds DEF MovePc
<1>3. ASSUME th[u].required_tags \subseteq th[u].tag_union, npc_take(th[u].npc_id),
             NEW i \in npc_find(th[u].npc_id),
             Goto(u, [pc |-> "sell_dispose", todo |-> th[u].ids, bounty |-> g_npc[i].bounty])
      PROVE  /\ Local(u)'
             /\ \E n \in NpcId, D \in SUBSET DocId : \E j \in npc_find(n) :
                   /\ npc_take(n)
                   /\ D = th[u].ids /\ th[u].pc = "sell_check" /\ th[u].todo = {}
                   /\ th'[u].pc = "sell_dispose"
                   /\ D # {} /\ D \subseteq DOMAIN Holds(u)
                   /\ \A t \in g_npc[j].required_tags : \E d \in D : t \in Holds(u)[d]
                   /\ Purse(u)' = Purse(u) + g_npc[j].bounty
                   /\ Holds(u)' = Vacate(Holds(u), D)
  <2>1. PICK n \in NpcId, D \in SUBSET DocId : n = th[u].npc_id /\ D = th[u].ids
    BY <1>1, HandlerElim
  <2>2. i \in NpcSlotsOf(n)
    BY <2>1 DEF npc_find, FirstOf
  <2>3. g_npc[i].required_tags = th[u].required_tags
    BY <1>1, <2>1, <2>2 DEF SameRequest
  <2>4. /\ D # {} /\ D \subseteq DOMAIN sandbox[u]
        /\ \A t \in th[u].tag_union : \E d \in D : t \in sandbox[u][d]
    BY <1>1, <2>1 DEF Local, Checked
  <2>5. Holds(u) = sandbox[u] /\ Purse(u) = users_dat[u]
    BY <1>1, SeenNow DEF MovePc
  <2>6. th'[u].pc = "sell_dispose" /\ th'[u].todo = D /\ th'[u].bounty = g_npc[i].bounty
    BY <1>3, <2>1, Goes
  <2>7. /\ Purse(u)' = users_dat[u] + g_npc[i].bounty /\ Holds(u)' = Vacate(sandbox[u], D)
    BY <1>1, <2>6, SeenNext DEF MovePc
  <2>8. Local(u)'
    BY <1>1, <2>6 DEF Local, InStep, Checked
  <2>9. \A t \in g_npc[i].required_tags : \E d \in D : t \in sandbox[u][d]
    BY <1>3, <2>3, <2>4
  <2>10. QED
    BY <1>1, <1>3, <2>1, <2>4, <2>5, <2>6, <2>7, <2>8, <2>9
<1>4. QED
  BY <1>2, <1>3 DEF SellTake

LEMMA VacateTwice ==
    ASSUME NEW s, NEW S, NEW d \in S
    PROVE  Vacate(Vacate(s, {d}), S \ {d}) = Vacate(s, S)
<1>1. DOMAIN Vacate(s, {d}) = DOMAIN s \ {d}
  BY DEF Vacate, Restrict
<1>2. DOMAIN Vacate(s, {d}) \ (S \ {d}) = DOMAIN s \ S
  BY <1>1
<1>3. \A x \in DOMAIN s \ S : Vacate(s, {d})[x] = s[x]
  BY DEF Vacate, Restrict
<1>4. QED
  BY <1>2, <1>3 DEF Vacate, Restrict

\* The files of the documents sold go one after the other.
LEMMA SellDisposes ==
    ASSUME TradeTypeOK, NEW u \in User, Local(u), SellDispose(u)
    PROVE  Local(u)' /\ Unseen(u)
<1>1. /\ th[u] \in HandlerState /\ users_dat' = users_dat
      /\ sandbox \in [User -> Table(DocId, SUBSET Tag)]
      /\ sandbox[u] \in Table(DocId, SUBSET Tag) /\ th[u].pc = "sell_dispose"
  BY LocalTypes DEF SellDispose, At, sandbox_dispose, TradeTypeOK
<1>2. PICK d \in th[u].todo :
         sandbox_dispose(u, d) /\ Goto(u, [th[u] EXCEPT !.todo = @ \ {d}])
  BY DEF SellDispose, FirstOf
<1>3. th[u] = [pc |-> "sell_dispose", todo |-> th[u].todo, bounty |-> th[u].bounty]
  BY <1>1, HandlerElim
<1>4. th'[u] = [th[u] EXCEPT !.todo = @ \ {d}]
  BY <1>2, Goes
<1>5. /\ th'[u].pc = "sell_dispose" /\ th'[u].todo = th[u].todo \ {d}
      /\ th'[u].bounty = th[u].bounty
  BY <1>3, <1>4
<1>6. sandbox'[u] = Vacate(sandbox[u], {d})
  BY <1>1, <1>2 DEF sandbox_dispose
<1>7. DOMAIN sandbox'[u] \subseteq DOMAIN sandbox[u]
  BY <1>6 DEF Vacate, Restrict
<1>8. IsFiniteSet(DOMAIN sandbox'[u])
  BY <1>7, FS_Subset DEF Local, InStep
<1>9. Local(u)'
  BY <1>1, <1>5, <1>8 DEF Local, InStep, Checked
<1>10. Vacate(sandbox'[u], th'[u].todo) = Vacate(sandbox[u], th[u].todo)
  BY <1>5, <1>6, VacateTwice
<1>11. Purse(u)' = Purse(u)
  BY <1>1, <1>5, SeenNow, SeenNext DEF MovePc
<1>12. Holds(u)' = Holds(u)
  BY <1>1, <1>5, <1>10, SeenNow, SeenNext DEF MovePc
<1>13. QED
  BY <1>9, <1>11, <1>12 DEF Unseen

LEMMA SellPays ==
    ASSUME TradeTypeOK, NEW u \in User, Local(u), SellMoney(u) \/ SellPay(u)
    PROVE  Local(u)' /\ Unseen(u)
<1>1. /\ th[u] \in HandlerState /\ sandbox' = sandbox /\ users_dat[u] \in Int
      /\ sandbox[u] \in Table(DocId, SUBSET Tag) /\ users_dat \in [User -> Int]
  BY LocalTypes DEF SellMoney, SellPay, store, userdb_update_at, TradeTypeOK
<1>2. CASE SellMoney(u)
  <2>1. /\ th[u].pc = "sell_dispose" /\ th[u].todo = {} /\ users_dat' = users_dat
        /\ th[u].bounty \in Bounty
    BY <1>1, <1>2, HandlerElim DEF SellMoney, At, store
  <2>2. PICK m : m = users_dat[u] + th[u].bounty
    OBVIOUS
  <2>3. th'[u].pc = "sell_pay" /\ th'[u].money = m
    BY <1>2, <2>2, Goes DEF SellMoney
  <2>4. m >= 0
    <3>1. th[u].bounty \in Nat
      BY <2>1, TradeAssumption
    <3>2. users_dat[u] >= 0
      BY <2>1 DEF Local, InStep
    <3>3. QED
      BY <1>1, <2>2, <3>1, <3>2
  <2>5. Vacate(sandbox[u], {}) = sandbox[u]
    <3>1. sandbox[u] = [d \in DOMAIN sandbox[u] |-> sandbox[u][d]]
      BY <1>1, TableElim
    <3>2. QED
      BY <3>1 DEF Vacate, Restrict
  <2>6. Local(u)'
    BY <1>1, <2>1, <2>3, <2>4 DEF Local, InStep, Checked
  <2>7. Purse(u)' = Purse(u)
    BY <1>1, <2>1, <2>2, <2>3, SeenNow, SeenNext DEF MovePc
  <2>8. Holds(u)' = Holds(u)
    BY <1>1, <2>1, <2>3, <2>5, SeenNow, SeenNext DEF MovePc
  <2>9. QED
    BY <2>6, <2>7, <2>8 DEF Unseen
<1>3. CASE SellPay(u)
  <2>1. /\ th[u].pc = "sell_pay" /\ users_dat'[u] = th[u].money /\ th'[u].pc = "ready"
    BY <1>1, <1>3, Goes, ReadyIdle DEF SellPay, At, userdb_update_at
  <2>2. Local(u)'
    BY <1>1, <2>1 DEF Local, InStep, Checked
  <2>3. QED
    BY <1>1, <2>1, <2>2, SeenNow, SeenNext DEF Unseen, MovePc
<1>4. QED
  BY <1>2, <1>3

LEMMA Disposes ==
    ASSUME TradeTypeOK, NEW u \in User, Local(u), NEW d, handle_dispose(u, d)
    PROVE  /\ Local(u)'
           /\ d \in DOMAIN Holds(u) /\ Holds(u)' = Vacate(Holds(u), {d})
           /\ Purse(u)' = Purse(u)
<1>1. /\ th' = th /\ users_dat' = users_dat /\ th[u].pc = "ready"
      /\ sandbox \in [User -> Table(DocId, SUBSET Tag)] /\ d \in DOMAIN sandbox[u]
  BY DEF handle_dispose, At, sandbox_has, sandbox_dispose, TradeTypeOK
<1>2. sandbox'[u] = Vacate(sandbox[u], {d})
  BY <1>1 DEF handle_dispose, sandbox_dispose
<1>3. DOMAIN sandbox'[u] \subseteq DOMAIN sandbox[u]
  BY <1>2 DEF Vacate, Restrict
<1>4. IsFiniteSet(DOMAIN sandbox'[u])
  BY <1>3, FS_Subset DEF Local, InStep
<1>5. Local(u)'
  BY <1>1, <1>4 DEF Local, InStep, Checked
<1>6. QED
  BY <1>1, <1>2, <1>5, SeenNow, SeenNext DEF MovePc

-----------------------------------------------------------------------------
\* The requests.

NpcLess(S) ==
    /\ DOMAIN g_npc' = DOMAIN g_npc \ S
    /\ \A i \in DOMAIN g_npc' : g_npc'[i] = g_npc[i]

NpcMore(n, tags, b) ==
    \E i : /\ i \notin DOMAIN g_npc
           /\ DOMAIN g_npc' = DOMAIN g_npc \cup {i}
           /\ \A j \in DOMAIN g_npc : g_npc'[j] = g_npc[j]
           /\ g_npc'[i] = [npc_id |-> n, required_tags |-> tags, bounty |-> b]

\* What a step does to the requests, and to the counter of their ids.
NpcKinds ==
    \/ g_npc_id_counter' = g_npc_id_counter /\ \E S : NpcLess(S)
    \/ /\ g_npc_id_counter < NPC_LIMIT /\ g_npc_id_counter' = g_npc_id_counter + 1
       /\ NpcLess({}) \/ \E T, b : NpcMore(g_npc_id_counter + 1, T, b)

LEMMA NpcVacated ==
    ASSUME NEW S, g_npc' = Vacate(g_npc, S)
    PROVE  NpcLess(S)
BY DEF NpcLess, Vacate, Restrict

LEMMA NpcAdded ==
    ASSUME TypeOK, NEW n, NEW T, NEW b, npc_add(n, T, b)
    PROVE  NpcMore(n, T, b)
<1>1. PICK r : r = [npc_id |-> n, required_tags |-> T, bounty |-> b]
  OBVIOUS
<1>2. PICK i \in FirstFree(g_npc, MAX_NPC_SLOTS) : g_npc' = Fill(g_npc, i, r)
  BY <1>1 DEF npc_add
<1>3. i \notin DOMAIN g_npc
  BY FirstFreeInRange
<1>4. /\ DOMAIN g_npc' = DOMAIN g_npc \cup {i} /\ g_npc'[i] = r
      /\ \A j \in DOMAIN g_npc : g_npc'[j] = g_npc[j]
  BY <1>2, <1>3 DEF Fill
<1>5. QED
  BY <1>1, <1>3, <1>4 DEF NpcMore

LEMMA NpcTaken ==
    ASSUME TypeOK, NEW n, NEW i \in npc_find(n), npc_take(n)
    PROVE  NpcLess({i}) /\ i \in DOMAIN g_npc /\ g_npc[i].npc_id = n
<1>1. PICK j \in npc_find(n) : g_npc' = Vacate(g_npc, {j})
  BY DEF npc_take
<1>2. NpcSlotsOf(n) \subseteq Int
  <2>1. DOMAIN g_npc \subseteq NpcIndex
    BY TableElim DEF TypeOK
  <2>2. NpcIndex \subseteq Int
    BY SlotsAssumption DEF NpcIndex
  <2>3. QED
    BY <2>1, <2>2 DEF NpcSlotsOf
<1>3. i = j
  BY <1>2, FirstUnique DEF npc_find
<1>4. i \in DOMAIN g_npc /\ g_npc[i].npc_id = n
  BY DEF npc_find, FirstOf, NpcSlotsOf
<1>5. QED
  BY <1>1, <1>3, <1>4, NpcVacated

LEMMA HandlerNpc ==
    ASSUME NEW u, Request(u) \/ Handler(u)
    PROVE  /\ g_npc_id_counter' = g_npc_id_counter
           /\ g_npc' = g_npc \/ \E n : npc_take(n)
<1>1. CASE Request(u)
  BY <1>1 DEF Request, BuyFind, handle_dispose, SellFind, OthersStay, vars, counters
<1>2. CASE BuyCount(u) \/ BuyMoney(u) \/ BuyTake(u) \/ BuyMove(u) \/ BuyUndo(u) \/ BuyPay(u)
  BY <1>2 DEF BuyCount, BuyMoney, BuyTake, BuyMove, BuyUndo, BuyPay, OthersStay, vars,
              market_take, market_add, counters
<1>3. CASE BustMoney(u) \/ BustCount(u) \/ BustBurn(u) \/ SellCheck(u) \/ SellTake(u)
  BY <1>3 DEF BustMoney, BustCount, BustBurn, SellCheck, SellTake, OthersStay, vars, counters
<1>4. CASE SellDispose(u) \/ SellMoney(u) \/ SellPay(u)
  BY <1>4 DEF SellDispose, SellMoney, SellPay, OthersStay, vars, counters
<1>5. QED
  BY <1>1, <1>2, <1>3, <1>4 DEF Handler

LEMMA NpcSteps ==
    ASSUME TradeTypeOK, [TradeNext]_tvars
    PROVE  NpcKinds
<1>0. TypeOK
  BY DEF TradeTypeOK
<1>1. ASSUME g_npc' = g_npc
      PROVE  NpcLess({})
  BY <1>1 DEF NpcLess
<1>2. ASSUME NEW u \in User, Request(u) \/ Handler(u)
      PROVE  NpcKinds
  <2>1. g_npc_id_counter' = g_npc_id_counter
    BY <1>2, HandlerNpc
  <2>2. ASSUME NEW n, npc_take(n)
        PROVE  \E S : NpcLess(S)
    <3>1. PICK i \in npc_find(n) : g_npc' = Vacate(g_npc, {i})
      BY <2>2 DEF npc_take
    <3>2. QED
      BY <3>1, NpcVacated
  <2>3. QED
    BY <1>1, <1>2, <2>1, <2>2, HandlerNpc DEF NpcKinds
<1>3. CASE Spawner
  <2>1. g_npc' = g_npc /\ g_npc_id_counter' = g_npc_id_counter
    BY <1>3 DEF Spawner, SpawnWrite, SpawnAdd, RemoveFile, vars, market_add
  <2>2. QED
    BY <1>1, <2>1 DEF NpcKinds
<1>4. CASE World
  <2>1. ASSUME NEW T \in TagMask, NEW b \in Bounty, NpcSpawn(T, b)
        PROVE  NpcKinds
    <3>1. g_npc_id_counter < NPC_LIMIT /\ g_npc_id_counter' = g_npc_id_counter + 1
      BY <2>1 DEF NpcSpawn
    <3>2. PICK n : n = g_npc_id_counter + 1
      OBVIOUS
    <3>3. npc_add(n, T, b) \/ g_npc' = g_npc
      BY <2>1, <3>1, <3>2 DEF NpcSpawn, vars
    <3>4. QED
      BY <1>0, <1>1, <3>1, <3>2, <3>3, NpcAdded DEF NpcKinds
  <2>2. ASSUME NEW A, AgeNpcs(A)
        PROVE  NpcKinds
    <3>1. g_npc' = Vacate(g_npc, A) /\ g_npc_id_counter' = g_npc_id_counter
      BY <2>2 DEF AgeNpcs, npc_despawn_aged
    <3>2. QED
      BY <3>1, NpcVacated DEF NpcKinds
  <2>3. CASE \/ \E T \in TagMask, p \in Price : SpawnChoose(T, p)
             \/ \E A \in SUBSET MarketIndex : AgeMarket(A)
             \/ \E t \in Tag : Leak(t) \/ Recover(t)
    <3>1. g_npc' = g_npc /\ g_npc_id_counter' = g_npc_id_counter
      BY <2>3 DEF SpawnChoose, AgeMarket, Leak, Recover, vars, market_despawn_aged,
                  freeze_tags, unfreeze_tags
    <3>2. QED
      BY <1>1, <3>1 DEF NpcKinds
  <2>4. QED
    BY <1>4, <2>1, <2>2, <2>3 DEF World, Traffic
<1>5. CASE (\E u \in User : RaidBurn(u)) \/ RaidPurge \/ UNCHANGED tvars
  <2>1. g_npc' = g_npc /\ g_npc_id_counter' = g_npc_id_counter
    BY <1>5 DEF RaidBurn, RaidPurge, tvars, vars, counters
  <2>2. QED
    BY <1>1, <2>1 DEF NpcKinds
<1>6. QED
  BY <1>2, <1>3, <1>4, <1>5 DEF TradeNext

\* Ids of requests are given out once.
LEMMA RequestsStep ==
    ASSUME TradeTypeOK, SoleRequests, NpcKinds
    PROVE  SoleRequests'
<1>1. PICK c, l \in Nat : c = g_npc_id_counter /\ l = NPC_LIMIT
  BY TradeAssumption DEF TradeTypeOK
<1>2. /\ \A i, j \in DOMAIN g_npc : g_npc[i].npc_id = g_npc[j].npc_id => i = j
      /\ \A i \in DOMAIN g_npc : g_npc[i].npc_id \notin (c + 1) .. l
  BY <1>1 DEF SoleRequests
<1>3. c + 1 \in (c + 1) .. l \/ ~ (c < l)
  BY <1>1
<1>4. \A n : n \in (c + 1 + 1) .. l => n \in (c + 1) .. l
  BY <1>1
<1>5. c + 1 \notin (c + 1 + 1) .. l
  BY <1>1
<1>6. ASSUME NEW S, NpcLess(S), g_npc_id_counter' \in {c, c + 1}
      PROVE  SoleRequests'
  <2>1. \A i \in DOMAIN g_npc' : i \in DOMAIN g_npc /\ g_npc'[i] = g_npc[i]
    BY <1>6 DEF NpcLess
  <2>2. \A n : n \in (g_npc_id_counter' + 1) .. l => n \in (c + 1) .. l
    BY <1>4, <1>6
  <2>3. QED
    BY <1>1, <1>2, <2>1, <2>2 DEF SoleRequests
<1>7. ASSUME NEW T, NEW b, NpcMore(c + 1, T, b), c < l, g_npc_id_counter' = c + 1
      PROVE  SoleRequests'
  <2>1. PICK n : n = c + 1
    OBVIOUS
  <2>2. PICK i : /\ i \notin DOMAIN g_npc
                 /\ DOMAIN g_npc' = DOMAIN g_npc \cup {i}
                 /\ \A j \in DOMAIN g_npc : g_npc'[j] = g_npc[j]
                 /\ g_npc'[i] = [npc_id |-> n, required_tags |-> T, bounty |-> b]
    BY <1>7, <2>1 DEF NpcMore
  <2>3. g_npc'[i].npc_id = n /\ \A j \in DOMAIN g_npc : g_npc[j].npc_id # n
    BY <1>2, <1>3, <1>7, <2>1, <2>2
  <2>4. \A j, k \in DOMAIN g_npc' : g_npc'[j].npc_id = g_npc'[k].npc_id => j = k
    BY <1>2, <2>2, <2>3
  <2>5. \A j \in DOMAIN g_npc' : g_npc'[j].npc_id \notin (c + 1 + 1) .. l
    BY <1>2, <1>4, <1>5, <2>1, <2>2, <2>3
  <2>6. QED
    BY <1>1, <1>7, <2>4, <2>5 DEF SoleRequests
<1>8. QED
  BY <1>1, <1>6, <1>7 DEF NpcKinds

\* Whatever comes and goes, a request keeps its tags as long as it is there.
LEMMA SameRequestKept ==
    ASSUME TradeTypeOK, NpcKinds, NEW u \in User, SameRequest(u),
           th'[u].pc = "sell_check" =>
               /\ th[u].pc = "sell_check" /\ th'[u].npc_id = th[u].npc_id
               /\ th'[u].required_tags = th[u].required_tags
    PROVE  SameRequest(u)'
<1> SUFFICES ASSUME th'[u].pc = "sell_check"
             PROVE  /\ th'[u].npc_id \notin (g_npc_id_counter' + 1) .. NPC_LIMIT
                    /\ \A i \in DOMAIN g_npc' : g_npc'[i].npc_id = th'[u].npc_id =>
                          g_npc'[i].required_tags = th'[u].required_tags
  BY DEF SameRequest, NpcSlotsOf
<1>1. PICK n, R : n = th[u].npc_id /\ R = th[u].required_tags
  OBVIOUS
<1>2. th'[u].npc_id = n /\ th'[u].required_tags = R
  BY <1>1
<1>3. PICK c, l \in Nat : c = g_npc_id_counter /\ l = NPC_LIMIT
  BY TradeAssumption DEF TradeTypeOK
<1>4. /\ n \notin (c + 1) .. l
      /\ \A i \in DOMAIN g_npc : g_npc[i].npc_id = n => g_npc[i].required_tags = R
  BY <1>1, <1>3 DEF SameRequest, NpcSlotsOf
<1>5. n \notin (c + 1 + 1) .. l
  BY <1>3, <1>4
<1>6. ASSUME NEW S, NpcLess(S), g_npc_id_counter' \in {c, c + 1}
      PROVE  /\ n \notin (g_npc_id_counter' + 1) .. l
             /\ \A i \in DOMAIN g_npc' : g_npc'[i].npc_id = n => g_npc'[i].required_tags = R
  BY <1>4, <1>5, <1>6 DEF NpcLess
<1>7. ASSUME NEW T, NEW b, NpcMore(c + 1, T, b), c < l, g_npc_id_counter' = c + 1
      PROVE  /\ n \notin (g_npc_id_counter' + 1) .. l
             /\ \A i \in DOMAIN g_npc' : g_npc'[i].npc_id = n => g_npc'[i].required_tags = R
  <2>1. c + 1 # n
    BY <1>3, <1>4, <1>7
  <2>2. PICK i : /\ i \notin DOMAIN g_npc
                 /\ DOMAIN g_npc' = DOMAIN g_npc \cup {i}
                 /\ \A j \in DOMAIN g_npc : g_npc'[j] = g_npc[j]
                 /\ g_npc'[i] = [npc_id |-> c + 1, required_tags |-> T, bounty |-> b]
    BY <1>7 DEF NpcMore
  <2>3. g_npc'[i].npc_id # n
    BY <2>1, <2>2
  <2>4. QED
    BY <1>4, <1>5, <1>7, <2>2, <2>3
<1>8. QED
  BY <1>2, <1>3, <1>6, <1>7 DEF NpcKinds

\* A sale begins with the request as it is.
LEMMA SellFindRequest ==
    ASSUME TradeTypeOK, SoleRequests, NEW u \in User, NEW n \in NpcId,
           NEW ids \in SUBSET DocId, SellFind(u, n, ids)
    PROVE  SameRequest(u)'
<1>1. PICK i \in npc_find(n) :
         Goto(u, [pc |-> "sell_check", npc_id |-> n, ids |-> ids, todo |-> ids,
                  required_tags |-> g_npc[i].required_tags, tag_union |-> {}])
  BY DEF SellFind
<1>2. th'[u].npc_id = n /\ th'[u].required_tags = g_npc[i].required_tags
  BY <1>1, Goes
<1>3. g_npc' = g_npc /\ g_npc_id_counter' = g_npc_id_counter
  BY DEF SellFind, OthersStay, vars, counters
<1>4. i \in DOMAIN g_npc /\ g_npc[i].npc_id = n
  BY DEF npc_find, FirstOf, NpcSlotsOf
<1>5. n \notin (g_npc_id_counter + 1) .. NPC_LIMIT
  BY <1>4 DEF SoleRequests
<1>6. \A j \in DOMAIN g_npc : g_npc[j].npc_id = n => j = i
  BY <1>4 DEF SoleRequests
<1>7. QED
  BY <1>2, <1>3, <1>5, <1>6 DEF SameRequest, NpcSlotsOf

\* No other call of a handler is the first of a sale.
LEMMA SaleGoesOn ==
    ASSUME TradeTypeOK, NEW u \in User,
           (\E d \in DocId : BuyFind(u, d) \/ handle_dispose(u, d)) \/ Handler(u)
    PROVE  th'[u].pc = "sell_check" =>
               /\ th[u].pc = "sell_check" /\ th'[u].npc_id = th[u].npc_id
               /\ th'[u].required_tags = th[u].required_tags
<1>1. th[u] \in HandlerState
  BY LocalTypes
<1>2. CASE \E d \in DocId : handle_dispose(u, d)
  BY <1>2 DEF handle_dispose, At
<1>3. CASE (\E d \in DocId : BuyFind(u, d)) \/ BuyMoney(u) \/ BuyTake(u) \/ BuyUndo(u)
  <2>1. \/ Goto(u, CheckBust)
        \/ \E d, p : Goto(u, [pc |-> "buy_count", doc_id |-> d, base_price |-> p])
        \/ \E d, m : Goto(u, [pc |-> "buy_take", doc_id |-> d, money |-> m])
        \/ \E x, m : Goto(u, [pc |-> "buy_move", slot |-> x, money |-> m])
    BY <1>3 DEF BuyFind, BuyMoney, BuyTake, BuyUndo
  <2>2. ASSUME NEW d, NEW p, Goto(u, [pc |-> "buy_count", doc_id |-> d, base_price |-> p])
        PROVE  th'[u].pc = "buy_count"
    BY <2>2, Goes
  <2>3. ASSUME NEW d, NEW m, Goto(u, [pc |-> "buy_take", doc_id |-> d, money |-> m])
        PROVE  th'[u].pc = "buy_take"
    BY <2>3, Goes
  <2>4. ASSUME NEW x, NEW m, Goto(u, [pc |-> "buy_move", slot |-> x, money |-> m])
        PROVE  th'[u].pc = "buy_move"
    BY <2>4, Goes
  <2>5. CASE Goto(u, CheckBust)
    BY <2>5, Goes, ReadyIdle
  <2>6. QED
    BY <2>1, <2>2, <2>3, <2>4, <2>5
<1>4. CASE BuyCount(u)
  <2>1. th[u].pc \in CountPc
    BY <1>4 DEF BuyCount, At, CountPc
  <2>2. [th[u] EXCEPT !.pc = "buy_money"].pc = "buy_money"
    BY <1>1, <2>1, CountOn DEF CountPc
  <2>3. QED
    BY <1>4, <2>2, Goes, ReadyIdle DEF BuyCount
<1>5. CASE BuyMove(u)
  <2>1. th[u].pc \in MovePc
    BY <1>5 DEF BuyMove, At, MovePc
  <2>2. PICK p \in MovePc : Goto(u, [th[u] EXCEPT !.pc = p])
    BY <1>5 DEF BuyMove, MovePc
  <2>3. th'[u].pc = p
    <3>1. th'[u] = [th[u] EXCEPT !.pc = p]
      BY <2>2, Goes
    <3>2. QED
      BY <1>1, <2>1, <2>2, <3>1, MoveOn
  <2>4. QED
    BY <2>3 DEF MovePc
<1>6. CASE BuyPay(u) \/ BustMoney(u) \/ BustCount(u) \/ BustBurn(u)
  BY <1>6, Goes DEF BuyPay, BustMoney, BustCount, BustBurn, CheckBust, Ready
<1>7. CASE SellTake(u) \/ SellMoney(u) \/ SellPay(u)
  <2>1. \/ \E x, b : Goto(u, [pc |-> "sell_dispose", todo |-> x, bounty |-> b])
        \/ \E m : Goto(u, [pc |-> "sell_pay", money |-> m])
        \/ Goto(u, Ready)
    BY <1>7 DEF SellTake, SellMoney, SellPay
  <2>2. ASSUME NEW x, NEW b, Goto(u, [pc |-> "sell_dispose", todo |-> x, bounty |-> b])
        PROVE  th'[u].pc = "sell_dispose"
    BY <2>2, Goes
  <2>3. ASSUME NEW m, Goto(u, [pc |-> "sell_pay", money |-> m])
        PROVE  th'[u].pc = "sell_pay"
    BY <2>3, Goes
  <2>4. CASE Goto(u, Ready)
    BY <2>4, Goes, ReadyIdle
  <2>5. QED
    BY <2>1, <2>2, <2>3, <2>4
<1>8. CASE SellCheck(u)
  <2>1. PICK d : \/ Goto(u, Ready)
                 \/ Goto(u, [th[u] EXCEPT !.todo = @ \ {d},
                                          !.tag_union = @ \cup sandbox[u][d]])
    BY <1>8 DEF SellCheck
  <2>2. th[u] \in Checking
    BY <1>1, <1>8 DEF HandlerState, Checking, SellCheck, At
  <2>3. CASE Goto(u, Ready)
    BY <2>3, Goes, ReadyIdle
  <2>4. CASE Goto(u, [th[u] EXCEPT !.todo = @ \ {d}, !.tag_union = @ \cup sandbox[u][d]])
    <3>1. th'[u] = [th[u] EXCEPT !.todo = @ \ {d}, !.tag_union = @ \cup sandbox[u][d]]
      BY <2>4, Goes
    <3>2. QED
      BY <2>2, <3>1 DEF Checking
  <2>5. QED
    BY <2>1, <2>3, <2>4
<1>9. CASE SellDispose(u)
  <2>1. PICK d : Goto(u, [th[u] EXCEPT !.todo = @ \ {d}])
    BY <1>9 DEF SellDispose
  <2>2. th[u] = [pc |-> "sell_dispose", todo |-> th[u].todo, bounty |-> th[u].bounty]
    BY <1>1, <1>9, HandlerElim DEF SellDispose, At
  <2>3. th'[u] = [th[u] EXCEPT !.todo = @ \ {d}]
    BY <2>1, Goes
  <2>4. th'[u].pc = "sell_dispose"
    BY <2>2, <2>3
  <2>5. QED
    BY <2>4
<1>10. QED
  BY <1>2, <1>3, <1>4, <1>5, <1>6, <1>7, <1>8, <1>9 DEF Handler

-----------------------------------------------------------------------------
\* The flags of the board agree with the mask under the threads too.

LEMMA FlagsAdd ==
    ASSUME TypeOK, FrozenFlagMatchesMask, NEW d, NEW T, NEW p, market_add(d, T, p)
    PROVE  FrozenFlagMatchesMask'
<1>1. PICK f \in BOOLEAN : f = is_tag_frozen(T)
  BY DEF is_tag_frozen, Overlap
<1>2. PICK s : s = [doc_id |-> d, tags |-> T, base_price |-> p, is_frozen |-> f]
  OBVIOUS
<1>3. PICK i \in FirstFree(g_market, MAX_MARKET_SLOTS) : g_market' = Fill(g_market, i, s)
  BY <1>1, <1>2 DEF market_add
<1>4. i \notin DOMAIN g_market
  BY FirstFreeInRange
<1>5. /\ DOMAIN g_market' = DOMAIN g_market \cup {i} /\ g_market'[i] = s
      /\ \A j \in DOMAIN g_market : g_market'[j] = g_market[j]
  BY <1>3, <1>4 DEF Fill
<1>6. g_frozen_tags' = g_frozen_tags
  BY DEF market_add
<1>7. s.is_frozen <=> Overlap(s.tags, g_frozen_tags)
  BY <1>1, <1>2 DEF is_tag_frozen
<1>8. QED
  BY <1>5, <1>6, <1>7 DEF FrozenFlagMatchesMask

LEMMA FlagsLess ==
    ASSUME TypeOK, FrozenFlagMatchesMask, NEW S, g_market' = Vacate(g_market, S),
           UNCHANGED g_frozen_tags
    PROVE  FrozenFlagMatchesMask'
BY VacateStep DEF FrozenFlagMatchesMask

LEMMA FlagsStep ==
    ASSUME TradeTypeOK, FrozenFlagMatchesMask, [TradeNext]_tvars
    PROVE  FrozenFlagMatchesMask'
<1>0. TypeOK
  BY DEF TradeTypeOK
<1>1. ASSUME UNCHANGED <<g_market, g_frozen_tags>>
      PROVE  FrozenFlagMatchesMask'
  BY <1>1 DEF FrozenFlagMatchesMask
<1>2. ASSUME NEW d, market_take(d)
      PROVE  FrozenFlagMatchesMask'
  <2>1. PICK i : g_market' = Vacate(g_market, {i}) /\ UNCHANGED g_frozen_tags
    BY <1>2 DEF market_take
  <2>2. QED
    BY <1>0, <2>1, FlagsLess
<1>3. ASSUME NEW u \in User, Request(u) \/ Handler(u)
      PROVE  FrozenFlagMatchesMask'
  <2>1. \/ UNCHANGED <<g_market, g_frozen_tags>>
        \/ \E d : market_take(d)
        \/ \E d, T, p : market_add(d, T, p)
    <3>1. CASE Request(u)
      BY <3>1 DEF Request, BuyFind, handle_dispose, SellFind, vars
    <3>2. CASE \/ BuyCount(u) \/ BuyMoney(u) \/ BuyTake(u) \/ BuyMove(u) \/ BuyUndo(u)
               \/ BuyPay(u)
      BY <3>2 DEF BuyCount, BuyMoney, BuyTake, BuyMove, BuyUndo, BuyPay, vars
    <3>3. CASE BustMoney(u) \/ BustCount(u) \/ BustBurn(u) \/ SellCheck(u) \/ SellTake(u)
      BY <3>3 DEF BustMoney, BustCount, BustBurn, SellCheck, SellTake, vars, npc_take
    <3>4. CASE SellDispose(u) \/ SellMoney(u) \/ SellPay(u)
      BY <3>4 DEF SellDispose, SellMoney, SellPay, vars
    <3>5. QED
      BY <1>3, <3>1, <3>2, <3>3, <3>4 DEF Handler
  <2>2. QED
    BY <1>0, <1>1, <1>2, <2>1, FlagsAdd
<1>4. CASE Spawner
  <2>1. \/ UNCHANGED <<g_market, g_frozen_tags>>
        \/ \E d, T, p : market_add(d, T, p)
    BY <1>4 DEF Spawner, SpawnWrite, SpawnAdd, RemoveFile, vars
  <2>2. QED
    BY <1>0, <1>1, <2>1, FlagsAdd
<1>5. ASSUME NEW A, AgeMarket(A)
      PROVE  FrozenFlagMatchesMask'
  BY <1>0, <1>5, FlagsLess DEF AgeMarket, market_despawn_aged
<1>6. ASSUME NEW t \in Tag, Leak(t) \/ Recover(t)
      PROVE  FrozenFlagMatchesMask'
  <2>1. {t} \in TagMask /\ BoardInv
    BY <1>0 DEF TagMask, BoardInv
  <2>2. freeze_tags({t}) \/ unfreeze_tags({t})
    BY <1>6 DEF Leak, Recover
  <2>3. QED
    BY <2>1, <2>2, FreezeStep DEF FrozenFlagMatchesMask
<1>7. CASE \/ \E T \in TagMask, p \in Price : SpawnChoose(T, p)
           \/ \E A \in SUBSET NpcIndex : AgeNpcs(A)
           \/ \E T \in TagMask, b \in Bounty : NpcSpawn(T, b)
  BY <1>1, <1>7 DEF SpawnChoose, AgeNpcs, NpcSpawn, vars, npc_despawn_aged, npc_add
<1>8. CASE (\E u \in User : RaidBurn(u)) \/ RaidPurge \/ UNCHANGED tvars
  BY <1>1, <1>8 DEF RaidBurn, RaidPurge, tvars, vars
<1>9. QED
  BY <1>3, <1>4, <1>5, <1>6, <1>7, <1>8 DEF TradeNext, World, Traffic

LEMMA FlagsStart ==
    ASSUME TradeInit
    PROVE  FrozenFlagMatchesMask
<1>1. \A i \in DOMAIN g_market : g_market[i].is_frozen = FALSE
  BY DEF TradeInit
<1>2. g_frozen_tags = {}
  BY DEF TradeInit
<1>3. QED
  BY <1>1, <1>2 DEF FrozenFlagMatchesMask, Overlap

\* However purchases, rollbacks, spawns and aging interleave with leaks and their
\* recovery, the flag that market_take and market_despawn_aged look at says of every
\* offer what is_tag_frozen, which handle_sell asks, says of its tags.
THEOREM FlagsAgreeInTrade == TradeSpec => []FrozenFlagMatchesMask
<1>1. TradeInit => FrozenFlagMatchesMask
  BY FlagsStart
<1>2. TradeTypeOK /\ FrozenFlagMatchesMask /\ [TradeNext]_tvars => FrozenFlagMatchesMask'
  BY FlagsStep
<1>3. QED
  BY <1>1, <1>2, TradeTypeCorrect, PTL DEF TradeSpec

-----------------------------------------------------------------------------
\* ExchangeInv is an invariant of the history.

\* What has been frozen since a sale or a listing began only becomes less.
LEMMA BarredShrinks ==
    ASSUME ExchangeInv, Record, NEW p \in UnderWay'
    PROVE  barred'[p] \subseteq g_frozen_tags' /\ (p \in UnderWay => barred'[p] \subseteq barred[p])
BY DEF ExchangeInv, Record

LEMMA RaidedGrows ==
    ASSUME TradeTypeOK, ExchangeInv, Record
    PROVE  /\ raided \subseteq raided'
           /\ raid' = raid => raided' = raided
           /\ \A u \in User : RaidBurn(u) => raided' = raided \cup {u}
           /\ RaidPurge => raided' = raided
<1>1. raided' = raided \cup {u \in User : raid'.pc = "purge" /\ raid'.key = u}
  BY DEF Record
<1>2. raid' = raid => raided' = raided
  BY <1>1 DEF ExchangeInv
<1>3. ASSUME NEW u \in User, RaidBurn(u)
      PROVE  raided' = raided \cup {u}
  <2>1. raid' = [pc |-> "purge", key |-> u]
    BY <1>3 DEF RaidBurn
  <2>2. QED
    BY <1>1, <2>1
<1>4. ASSUME RaidPurge
      PROVE  raided' = raided
  <2>1. raid'.pc = "idle"
    BY <1>4 DEF RaidPurge
  <2>2. QED
    BY <1>1, <2>1
<1>5. QED
  BY <1>1, <1>2, <1>3, <1>4

\* A raid spares the players that were not raided.
LEMMA RaidSpares ==
    ASSUME TradeTypeOK, ExchangeInv, Record, (\E u \in User : RaidBurn(u)) \/ RaidPurge,
           NEW v \in User \ raided'
    PROVE  th'[v] = th[v] /\ users_dat'[v] = users_dat[v] /\ sandbox'[v] = sandbox[v]
<1>1. users_dat \in [User -> Int] /\ sandbox \in [User -> Table(DocId, SUBSET Tag)]
  BY DEF TradeTypeOK
<1>2. ASSUME NEW u \in User, RaidBurn(u)
      PROVE  th' = th /\ users_dat'[v] = users_dat[v] /\ sandbox' = sandbox
  <2>1. v # u
    BY <1>2, RaidedGrows
  <2>2. QED
    BY <1>1, <1>2, <2>1 DEF RaidBurn, userdb_burn_at, userdb_update_at
<1>3. ASSUME RaidPurge
      PROVE  th' = th /\ users_dat' = users_dat /\ sandbox'[v] = sandbox[v]
  <2>1. v # raid.key
    BY <1>3, RaidedGrows DEF RaidPurge, ExchangeInv
  <2>2. QED
    BY <1>1, <1>3, <2>1 DEF RaidPurge, sandbox_purge_user
<1>4. QED
  BY <1>2, <1>3

\* A call of u's handler, as far as u is concerned.
LEMMA LocalStep ==
    ASSUME TradeTypeOK, CustodyInv, NEW u \in User, Local(u), Affords(u), SameRequest(u),
           Request(u) \/ Handler(u)
    PROVE  Local(u)'
<1>1. CASE Request(u)
  <2>1. ASSUME NEW d \in DocId, handle_dispose(u, d)
        PROVE  Local(u)'
    BY <2>1, Disposes
  <2>2. QED
    BY <1>1, <2>1, BuyReads, SellReads DEF Request
<1>2. CASE Handler(u)
  <2>1. CASE BuyCount(u) \/ BuyMoney(u) \/ BuyTake(u) \/ BuyMove(u) \/ BuyUndo(u) \/ BuyPay(u)
    BY <2>1, BuyReads, BuyTakes, BuyMoves, BuyUndoes, BuyPays
  <2>2. CASE BustMoney(u) \/ BustCount(u) \/ BustBurn(u)
    BY <2>2, BustReads, BustBurns
  <2>3. CASE SellCheck(u) \/ SellTake(u) \/ SellDispose(u) \/ SellMoney(u) \/ SellPay(u)
    BY <2>3, SellReads, SellTakes, SellDisposes, SellPays
  <2>4. QED
    BY <1>2, <2>1, <2>2, <2>3 DEF Handler
<1>3. QED
  BY <1>1, <1>2

\* handle_sell asks is_tag_frozen about each document it adds.
LEMMA CheckGuards ==
    ASSUME TradeTypeOK, ExchangeInv, Record, NEW u \in User, Local(u), Guarded(u), SellCheck(u)
    PROVE  Guarded(u)'
<1> SUFFICES ASSUME th'[u].pc = "sell_check"
             PROVE  \A e \in th'[u].ids \ th'[u].todo : sandbox'[u][e] \cap barred'[u] = {}
  BY DEF Guarded
<1>1. /\ th[u] \in HandlerState /\ sandbox' = sandbox /\ g_frozen_tags' = g_frozen_tags
      /\ th[u].pc = "sell_check"
  BY LocalTypes DEF SellCheck, store, vars, At
<1>2. PICK d \in FirstOf(th[u].todo) :
         Goto(u, IF ~ sandbox_has(u, d) THEN Ready
                 ELSE IF is_tag_frozen(sandbox[u][d]) THEN Ready
                 ELSE [th[u] EXCEPT !.todo = @ \ {d}, !.tag_union = @ \cup sandbox[u][d]])
  BY DEF SellCheck
<1>3. sandbox_has(u, d) /\ ~ is_tag_frozen(sandbox[u][d])
  BY <1>2, Goes, ReadyIdle
<1>4. th[u] \in Checking
  BY <1>1 DEF HandlerState, Checking
<1>5. th'[u] = [th[u] EXCEPT !.todo = @ \ {d}, !.tag_union = @ \cup sandbox[u][d]]
  BY <1>2, <1>3, Goes
<1>6. th'[u].ids = th[u].ids /\ th'[u].todo = th[u].todo \ {d}
  BY <1>4, <1>5 DEF Checking
<1>7. u \in UnderWay /\ u \in UnderWay'
  BY <1>1 DEF UnderWay, At
<1>8. barred'[u] \subseteq g_frozen_tags /\ barred'[u] \subseteq barred[u]
  BY <1>1, <1>7, BarredShrinks
<1>9. sandbox[u][d] \cap g_frozen_tags = {}
  BY <1>3 DEF is_tag_frozen, Overlap
<1>10. \A e \in th[u].ids \ th[u].todo : sandbox[u][e] \cap barred[u] = {}
  BY <1>1 DEF Guarded
<1>11. QED
  BY <1>1, <1>6, <1>8, <1>9, <1>10

LEMMA GuardedIdle ==
    ASSUME ExchangeInv, Record, NEW u \in User, Guarded(u), th'[u] = th[u],
           sandbox'[u] = sandbox[u]
    PROVE  Guarded(u)'
<1> SUFFICES ASSUME th'[u].pc = "sell_check"
             PROVE  \A e \in th'[u].ids \ th'[u].todo : sandbox'[u][e] \cap barred'[u] = {}
  BY DEF Guarded
<1>1. u \in UnderWay /\ u \in UnderWay'
  BY DEF UnderWay, At
<1>2. barred'[u] \subseteq barred[u]
  BY <1>1, BarredShrinks
<1>3. QED
  BY <1>2 DEF Guarded

LEMMA GuardedStep ==
    ASSUME TradeTypeOK, ExchangeInv, Record, NEW u \in User, Local(u), Guarded(u),
           Request(u) \/ Handler(u)
    PROVE  Guarded(u)'
<1>1. CASE \E n \in NpcId, ids \in SUBSET DocId : SellFind(u, n, ids)
  <2>1. PICK n, ids, R : Goto(u, [pc |-> "sell_check", npc_id |-> n, ids |-> ids,
                                  todo |-> ids, required_tags |-> R, tag_union |-> {}])
    BY <1>1 DEF SellFind
  <2>2. th'[u].ids = ids /\ th'[u].todo = ids
    BY <2>1, Goes
  <2>3. QED
    BY <2>2 DEF Guarded
<1>2. CASE SellCheck(u)
  BY <1>2, CheckGuards
<1>3. CASE SellTake(u)
  <2>1. \/ \E x, b : Goto(u, [pc |-> "sell_dispose", todo |-> x, bounty |-> b])
        \/ Goto(u, Ready)
    BY <1>3 DEF SellTake
  <2>2. ASSUME NEW x, NEW b, Goto(u, [pc |-> "sell_dispose", todo |-> x, bounty |-> b])
        PROVE  th'[u].pc = "sell_dispose"
    BY <2>2, Goes
  <2>3. th'[u].pc # "sell_check"
    BY <2>1, <2>2, Goes, ReadyIdle
  <2>4. QED
    BY <2>3 DEF Guarded
<1>4. CASE (\E d \in DocId : BuyFind(u, d) \/ handle_dispose(u, d))
           \/ (Handler(u) /\ ~ SellCheck(u) /\ ~ SellTake(u))
  <2>1. th[u].pc # "sell_check"
    <3>1. CASE \E d \in DocId : BuyFind(u, d) \/ handle_dispose(u, d)
      BY <3>1 DEF BuyFind, handle_dispose, At
    <3>2. CASE BuyCount(u) \/ BuyMoney(u) \/ BuyTake(u) \/ BuyMove(u) \/ BuyUndo(u) \/ BuyPay(u)
      BY <3>2 DEF BuyCount, BuyMoney, BuyTake, BuyMove, BuyUndo, BuyPay, At
    <3>3. CASE BustMoney(u) \/ BustCount(u) \/ BustBurn(u)
      BY <3>3 DEF BustMoney, BustCount, BustBurn, At
    <3>4. CASE SellDispose(u) \/ SellMoney(u) \/ SellPay(u)
      BY <3>4 DEF SellDispose, SellMoney, SellPay, At
    <3>5. QED
      BY <1>4, <3>1, <3>2, <3>3, <3>4 DEF Handler
  <2>2. th'[u].pc # "sell_check"
    BY <1>4, <2>1, SaleGoesOn
  <2>3. QED
    BY <2>2 DEF Guarded
<1>5. QED
  BY <1>1, <1>2, <1>3, <1>4 DEF Request

\* event_spawn_market chooses from the tags that are not frozen.
LEMMA SpawnGuardedStep ==
    ASSUME TradeTypeOK, ExchangeInv, Record, Kinds
    PROVE  SpawnGuarded'
<1> SUFFICES ASSUME ev'.pc \in {"spawn_write", "spawn_add"}
             PROVE  ev'.tags \cap barred'[Event] = {}
  BY DEF SpawnGuarded
<1>1. Event \in UnderWay'
  BY DEF UnderWay
<1>2. CASE Chooses
  BY <1>1, <1>2, BarredShrinks DEF Chooses
<1>3. CASE ev.pc \in {"spawn_write", "spawn_add"} /\ ev'.tags = ev.tags
  <2>1. Event \in UnderWay
    BY <1>3 DEF UnderWay
  <2>2. barred'[Event] \subseteq barred[Event]
    BY <1>1, <2>1, BarredShrinks
  <2>3. QED
    BY <1>3, <2>2 DEF ExchangeInv, SpawnGuarded
<1>4. QED
  BY <1>2, <1>3 DEF Kinds, Quiet, Takes, Moves, Relists, Loses, Writes, Lists, HandsBack,
                    Ages, Removes

LEMMA ExchangeStep ==
    ASSUME TradeTypeOK, CustodyInv, \A v \in User : Affords(v), ExchangeInv, TradeNext, Record
    PROVE  ExchangeInv'
<1>1. FrozenFlagMatchesMask' /\ NpcKinds /\ SoleRequests /\ SoleRequests'
  BY FlagsStep, NpcSteps, RequestsStep DEF ExchangeInv
<1>2. TradeTypeOK' /\ Kinds /\ SpawnGuarded'
  BY StepKinds, SpawnGuardedStep
<1>3. (raid'.pc = "purge" => raid'.key \in raided') /\ DOMAIN barred' = UnderWay'
  BY <1>2 DEF Record, TradeTypeOK
<1>4. ASSUME NEW v \in User
      PROVE  SameRequest(v)' /\ (v \notin raided' => Local(v)' /\ Guarded(v)')
  <2>1. /\ SameRequest(v) /\ Affords(v)
        /\ v \notin raided' => v \notin raided /\ Local(v) /\ Guarded(v)
    BY RaidedGrows DEF ExchangeInv
  <2>2. ASSUME th'[v] = th[v]
        PROVE  SameRequest(v)'
    BY <1>1, <2>1, <2>2, SameRequestKept
  <2>3. ASSUME th'[v] = th[v], users_dat'[v] = users_dat[v], sandbox'[v] = sandbox[v]
        PROVE  v \notin raided' => Local(v)' /\ Guarded(v)'
    BY <2>1, <2>3, LocalIdle, GuardedIdle
  <2>4. ASSUME NEW u \in User, Request(u) \/ Handler(u), u # v
        PROVE  SameRequest(v)' /\ (v \notin raided' => Local(v)' /\ Guarded(v)')
    BY <2>2, <2>3, <2>4, OthersIdle
  <2>5. CASE Request(v) \/ Handler(v)
    <3>1. v \notin raided' => Local(v)' /\ Guarded(v)'
      BY <2>1, <2>5, LocalStep, GuardedStep
    <3>2. CASE \E n \in NpcId, ids \in SUBSET DocId : SellFind(v, n, ids)
      BY <1>1, <3>1, <3>2, SellFindRequest
    <3>3. CASE (\E d \in DocId : BuyFind(v, d) \/ handle_dispose(v, d)) \/ Handler(v)
      BY <1>1, <2>1, <3>1, <3>3, SaleGoesOn, SameRequestKept
    <3>4. QED
      BY <2>5, <3>2, <3>3 DEF Request
  <2>6. CASE Spawner \/ World
    <3>1. th' = th /\ users_dat' = users_dat /\ sandbox' = sandbox
      BY <2>6, EventsIdle
    <3>2. QED
      BY <2>2, <2>3, <3>1
  <2>7. CASE (\E u \in User : RaidBurn(u)) \/ RaidPurge
    <3>1. th' = th
      BY <2>7 DEF RaidBurn, RaidPurge
    <3>2. QED
      BY <2>2, <2>3, <2>7, <3>1, RaidSpares
  <2>8. QED
    BY <2>4, <2>5, <2>6, <2>7 DEF TradeNext
<1>5. QED
  BY <1>1, <1>2, <1>3, <1>4 DEF ExchangeInv

LEMMA ExchangeStutter ==
    ASSUME ExchangeInv, UNCHANGED hvars
    PROVE  ExchangeInv'
<1>1. UNCHANGED <<g_market, g_npc, g_frozen_tags, users_dat, master, sandbox, th, ev, raid,
                  g_doc_id_counter, g_npc_id_counter, faults, lost, barred, raided>>
  BY DEF hvars, tvars, vars, store, counters
<1>2. UnderWay' = UnderWay
  BY <1>1 DEF UnderWay, At
<1>3. FrozenFlagMatchesMask' /\ SoleRequests' /\ SpawnGuarded'
  BY <1>1 DEF ExchangeInv, FrozenFlagMatchesMask, SoleRequests, SpawnGuarded
<1>4. \A u \in User : SameRequest(u)'
  BY <1>1 DEF ExchangeInv, SameRequest, NpcSlotsOf
<1>5. \A u \in User \ raided : Local(u)' /\ Guarded(u)'
  BY <1>1 DEF ExchangeInv, Local, InStep, Checked, Guarded
<1>6. QED
  BY <1>1, <1>2, <1>3, <1>4, <1>5 DEF ExchangeInv

LEMMA ExchangeStart ==
    ASSUME NpcsApart, HistoryInit
    PROVE  ExchangeInv
<1>1. ASSUME NEW u \in User
      PROVE  Local(u) /\ Guarded(u) /\ SameRequest(u) /\ ~ At(u, "sell_check")
  <2>1. th[u].pc = "ready" /\ users_dat[u] = INITIAL_MONEY /\ DOMAIN sandbox[u] = {}
    BY DEF HistoryInit, TradeInit
  <2>2. IsFiniteSet(DOMAIN sandbox[u]) /\ users_dat[u] >= 0
    BY <2>1, FS_EmptySet, TradeAssumption
  <2>3. QED
    BY <2>1, <2>2 DEF Local, InStep, Checked, Guarded, SameRequest, At
<1>2. SoleRequests
  <2>1. DOMAIN SeedNpcs = 1 .. Len(SeedNpcs) /\ Len(SeedNpcs) \in Nat
    BY SeedsTyped
  <2>2. /\ DOMAIN g_npc = 0 .. (Len(SeedNpcs) - 1)
        /\ \A i \in DOMAIN g_npc : g_npc[i] = SeedNpcs[i + 1]
    BY DEF HistoryInit, TradeInit
  <2>3. \A i \in DOMAIN g_npc : i \in Int /\ i + 1 \in DOMAIN SeedNpcs
    BY <2>1, <2>2
  <2>4. g_npc_id_counter + 1 = 1
    BY DEF HistoryInit, TradeInit
  <2>5. \A i \in DOMAIN g_npc : g_npc[i].npc_id \notin 1 .. NPC_LIMIT
    BY <2>2, <2>3 DEF NpcsApart
  <2>6. \A i, j \in DOMAIN g_npc : g_npc[i].npc_id = g_npc[j].npc_id => i + 1 = j + 1
    BY <2>2, <2>3 DEF NpcsApart
  <2>7. \A i, j \in DOMAIN g_npc : g_npc[i].npc_id = g_npc[j].npc_id => i = j
    <3>1. \A i, j \in Int : i + 1 = j + 1 => i = j
      OBVIOUS
    <3>2. QED
      BY <2>3, <2>6, <3>1
  <2>8. QED
    BY <2>4, <2>5, <2>7 DEF SoleRequests
<1>3. FrozenFlagMatchesMask /\ raid.pc = "idle" /\ ev.pc = "idle" /\ DOMAIN barred = {}
  BY FlagsStart DEF HistoryInit, TradeInit
<1>4. UnderWay = {} /\ SpawnGuarded
  BY <1>1, <1>3 DEF UnderWay, SpawnGuarded
<1>5. QED
  BY <1>1, <1>2, <1>3, <1>4 DEF ExchangeInv

-----------------------------------------------------------------------------
\* What Exchange sees of the board.

\* One slot for each document.
SoleOffers == \A i, j \in DOMAIN g_market : g_market[i].doc_id = g_market[j].doc_id => i = j

LEMMA SoleOffersHolds ==
    ASSUME TradeTypeOK, CustodyInv
    PROVE  SoleOffers
<1> SUFFICES ASSUME NEW i \in DOMAIN g_market, NEW j \in DOMAIN g_market,
                    g_market[i].doc_id = g_market[j].doc_id
             PROVE  i = j
  BY DEF SoleOffers
<1>1. PICK d : d = g_market[i].doc_id
  OBVIOUS
<1>2. g_market[i] \in MarketSlot
  BY TableElim DEF TradeTypeOK, TypeOK
<1>3. d \in DocId
  BY <1>1, <1>2 DEF MarketSlot
<1>4. i \in SlotsOf(d) /\ j \in SlotsOf(d)
  BY <1>1 DEF SlotsOf
<1>5. QED
  BY <1>3, <1>4 DEF CustodyInv, Sole

OfferSeen(slot) == [tags |-> slot.tags, price |-> slot.base_price]
RequestSeen(slot) == [tags |-> slot.required_tags, bounty |-> slot.bounty]

LEMMA OffersNow ==
    ASSUME SoleOffers
    PROVE  /\ ShownOffers = [d \in DOMAIN ShownOffers |-> ShownOffers[d]]
           /\ DOMAIN ShownOffers = {g_market[i].doc_id : i \in DOMAIN g_market}
           /\ \A i \in DOMAIN g_market :
                 ShownOffers[g_market[i].doc_id] = OfferSeen(g_market[i])
<1>1. ASSUME NEW i \in DOMAIN g_market
      PROVE  SlotOf(g_market[i].doc_id) = i
  <2>1. PICK d : d = g_market[i].doc_id
    OBVIOUS
  <2>2. SlotOf(d) \in DOMAIN g_market /\ g_market[SlotOf(d)].doc_id = d
    BY <2>1 DEF SlotOf
  <2>3. QED
    BY <2>1, <2>2 DEF SoleOffers
<1>2. QED
  BY <1>1 DEF ShownOffers, OnBoard, OfferSeen

LEMMA OffersNext ==
    ASSUME SoleOffers'
    PROVE  /\ ShownOffers' = [d \in DOMAIN ShownOffers' |-> ShownOffers'[d]]
           /\ DOMAIN ShownOffers' = {g_market'[i].doc_id : i \in DOMAIN g_market'}
           /\ \A i \in DOMAIN g_market' :
                 ShownOffers'[g_market'[i].doc_id] = OfferSeen(g_market'[i])
<1>1. ASSUME NEW i \in DOMAIN g_market'
      PROVE  \A d : d = g_market'[i].doc_id => SlotOf(d)' = i
  <2> SUFFICES ASSUME NEW d, d = g_market'[i].doc_id
               PROVE  SlotOf(d)' = i
    OBVIOUS
  <2>1. SlotOf(d)' \in DOMAIN g_market' /\ g_market'[SlotOf(d)'].doc_id = d
    BY DEF SlotOf
  <2>2. QED
    BY <2>1 DEF SoleOffers
<1>2. QED
  BY <1>1 DEF ShownOffers, OnBoard, OfferSeen

LEMMA RequestsNow ==
    ASSUME SoleRequests
    PROVE  /\ OpenRequests = [n \in DOMAIN OpenRequests |-> OpenRequests[n]]
           /\ DOMAIN OpenRequests = {g_npc[i].npc_id : i \in DOMAIN g_npc}
           /\ \A i \in DOMAIN g_npc :
                 OpenRequests[g_npc[i].npc_id] = RequestSeen(g_npc[i])
<1>1. ASSUME NEW i \in DOMAIN g_npc
      PROVE  NpcSlotOf(g_npc[i].npc_id) = i
  <2>1. PICK n : n = g_npc[i].npc_id
    OBVIOUS
  <2>2. NpcSlotOf(n) \in DOMAIN g_npc /\ g_npc[NpcSlotOf(n)].npc_id = n
    BY <2>1 DEF NpcSlotOf
  <2>3. QED
    BY <2>1, <2>2 DEF SoleRequests
<1>2. QED
  BY <1>1 DEF OpenRequests, RequestSeen

LEMMA RequestsNext ==
    ASSUME SoleRequests'
    PROVE  /\ OpenRequests' = [n \in DOMAIN OpenRequests' |-> OpenRequests'[n]]
           /\ DOMAIN OpenRequests' = {g_npc'[i].npc_id : i \in DOMAIN g_npc'}
           /\ \A i \in DOMAIN g_npc' :
                 OpenRequests'[g_npc'[i].npc_id] = RequestSeen(g_npc'[i])
<1>1. ASSUME NEW i \in DOMAIN g_npc'
      PROVE  \A n : n = g_npc'[i].npc_id => NpcSlotOf(n)' = i
  <2> SUFFICES ASSUME NEW n, n = g_npc'[i].npc_id
               PROVE  NpcSlotOf(n)' = i
    OBVIOUS
  <2>1. NpcSlotOf(n)' \in DOMAIN g_npc' /\ g_npc'[NpcSlotOf(n)'].npc_id = n
    BY DEF NpcSlotOf
  <2>2. QED
    BY <2>1 DEF SoleRequests
<1>2. QED
  BY <1>1 DEF OpenRequests, RequestSeen

\* Functions that are equal, without a part of the domain, or with one more value.
LEMMA RemoveIs ==
    ASSUME NEW f, NEW g, NEW D, g = [x \in DOMAIN g |-> g[x]],
           DOMAIN g = DOMAIN f \ D, \A x \in DOMAIN g : g[x] = f[x]
    PROVE  g = X!Remove(f, D)
BY DEF X!Remove, X!Restrict

LEMMA InsertIs ==
    ASSUME NEW f, NEW g, NEW d, NEW y, g = [x \in DOMAIN g |-> g[x]],
           DOMAIN g = DOMAIN f \cup {d}, g[d] = y, \A x \in DOMAIN f \ {d} : g[x] = f[x]
    PROVE  g = X!Insert(f, d, y)
BY DEF X!Insert

LEMMA ShownSame ==
    ASSUME SoleOffers, SoleOffers', BoardSame
    PROVE  ShownOffers' = ShownOffers
<1>1. DOMAIN ShownOffers' = DOMAIN ShownOffers
  BY OffersNow, OffersNext DEF BoardSame, SameOffer
<1>2. ASSUME NEW d \in DOMAIN ShownOffers
      PROVE  ShownOffers'[d] = ShownOffers[d]
  <2>1. PICK i \in DOMAIN g_market : d = g_market[i].doc_id
    BY OffersNow
  <2>2. /\ i \in DOMAIN g_market' /\ d = g_market'[i].doc_id
        /\ OfferSeen(g_market'[i]) = OfferSeen(g_market[i])
    BY <2>1 DEF BoardSame, SameOffer, OfferSeen
  <2>3. QED
    BY <2>1, <2>2, OffersNow, OffersNext
<1>3. QED
  BY <1>1, <1>2, OffersNow, OffersNext

LEMMA ShownLess ==
    ASSUME SoleOffers, SoleOffers', NEW S, BoardLess(S), S \subseteq DOMAIN g_market
    PROVE  ShownOffers' = X!Remove(ShownOffers, {g_market[i].doc_id : i \in S})
<1> DEFINE D == {g_market[i].doc_id : i \in S}
<1>1. \A i \in DOMAIN g_market' :
         i \in DOMAIN g_market /\ i \notin S /\ g_market'[i].doc_id = g_market[i].doc_id
  BY DEF BoardLess, SameOffer
<1>2. \A i \in DOMAIN g_market : g_market[i].doc_id \in D => i \in S
  BY DEF SoleOffers
<1>3. DOMAIN ShownOffers' = DOMAIN ShownOffers \ D
  <2>1. ASSUME NEW d \in DOMAIN ShownOffers'
        PROVE  d \in DOMAIN ShownOffers \ D
    <3>1. PICK i \in DOMAIN g_market' : d = g_market'[i].doc_id
      BY OffersNext
    <3>2. QED
      BY <1>1, <1>2, <3>1, OffersNow
  <2>2. ASSUME NEW d \in DOMAIN ShownOffers \ D
        PROVE  d \in DOMAIN ShownOffers'
    <3>1. PICK i \in DOMAIN g_market : d = g_market[i].doc_id
      BY OffersNow
    <3>2. i \in DOMAIN g_market'
      BY <2>2, <3>1 DEF BoardLess
    <3>3. QED
      BY <1>1, <3>1, <3>2, OffersNext
  <2>3. QED
    BY <2>1, <2>2
<1>4. ASSUME NEW d \in DOMAIN ShownOffers'
      PROVE  ShownOffers'[d] = ShownOffers[d]
  <2>1. PICK i \in DOMAIN g_market' : d = g_market'[i].doc_id
    BY OffersNext
  <2>2. /\ i \in DOMAIN g_market /\ d = g_market[i].doc_id
        /\ OfferSeen(g_market'[i]) = OfferSeen(g_market[i])
    BY <2>1 DEF BoardLess, SameOffer, OfferSeen
  <2>3. QED
    BY <2>1, <2>2, OffersNow, OffersNext
<1> HIDE DEF D
<1>5. ShownOffers' = [d \in DOMAIN ShownOffers' |-> ShownOffers'[d]]
  BY OffersNext
<1>6. ShownOffers' = X!Remove(ShownOffers, D)
  BY <1>3, <1>4, <1>5, RemoveIs
<1>7. QED
  BY <1>6 DEF D

LEMMA ShownMore ==
    ASSUME SoleOffers, SoleOffers', NEW d, NEW T, NEW p, BoardMore(d, T, p)
    PROVE  /\ d \notin DOMAIN ShownOffers
           /\ ShownOffers' = X!Insert(ShownOffers, d, [tags |-> T, price |-> p])
<1>1. PICK i : /\ i \notin DOMAIN g_market
               /\ DOMAIN g_market' = DOMAIN g_market \cup {i}
               /\ \A j \in DOMAIN g_market : SameOffer(j)
               /\ g_market'[i].doc_id = d /\ g_market'[i].tags = T
               /\ g_market'[i].base_price = p
  BY DEF BoardMore
<1>2. \A j \in DOMAIN g_market : g_market'[j].doc_id = g_market[j].doc_id /\ j # i
  BY <1>1 DEF SameOffer
<1>3. \A j \in DOMAIN g_market : g_market[j].doc_id # d
  BY <1>1, <1>2 DEF SoleOffers
<1>4. d \notin DOMAIN ShownOffers
  BY <1>3, OffersNow
<1>5. DOMAIN ShownOffers' = DOMAIN ShownOffers \cup {d}
  BY <1>1, <1>2, OffersNow, OffersNext
<1>6. ShownOffers'[d] = [tags |-> T, price |-> p]
  BY <1>1, OffersNext DEF OfferSeen
<1>7. ASSUME NEW e \in DOMAIN ShownOffers
      PROVE  ShownOffers'[e] = ShownOffers[e]
  <2>1. PICK j \in DOMAIN g_market : e = g_market[j].doc_id
    BY OffersNow
  <2>2. /\ j \in DOMAIN g_market' /\ e = g_market'[j].doc_id
        /\ OfferSeen(g_market'[j]) = OfferSeen(g_market[j])
    BY <1>1, <2>1 DEF SameOffer, OfferSeen
  <2>3. QED
    BY <2>1, <2>2, OffersNow, OffersNext
<1>8. ShownOffers' = [e \in DOMAIN ShownOffers' |-> ShownOffers'[e]]
  BY OffersNext
<1>9. QED
  BY <1>4, <1>5, <1>6, <1>7, <1>8, InsertIs

LEMMA WantedSame ==
    ASSUME g_npc' = g_npc
    PROVE  OpenRequests' = OpenRequests
BY DEF OpenRequests, NpcSlotOf

LEMMA WantedLess ==
    ASSUME SoleRequests, SoleRequests', NEW S, NpcLess(S), S \subseteq DOMAIN g_npc
    PROVE  OpenRequests' = X!Remove(OpenRequests, {g_npc[i].npc_id : i \in S})
<1> DEFINE D == {g_npc[i].npc_id : i \in S}
<1>1. \A i \in DOMAIN g_npc' : i \in DOMAIN g_npc /\ i \notin S /\ g_npc'[i] = g_npc[i]
  BY DEF NpcLess
<1>2. \A i \in DOMAIN g_npc : g_npc[i].npc_id \in D => i \in S
  BY DEF SoleRequests
<1>3. DOMAIN OpenRequests' = DOMAIN OpenRequests \ D
  <2>1. ASSUME NEW n \in DOMAIN OpenRequests'
        PROVE  n \in DOMAIN OpenRequests \ D
    <3>1. PICK i \in DOMAIN g_npc' : n = g_npc'[i].npc_id
      BY RequestsNext
    <3>2. QED
      BY <1>1, <1>2, <3>1, RequestsNow
  <2>2. ASSUME NEW n \in DOMAIN OpenRequests \ D
        PROVE  n \in DOMAIN OpenRequests'
    <3>1. PICK i \in DOMAIN g_npc : n = g_npc[i].npc_id
      BY RequestsNow
    <3>2. i \in DOMAIN g_npc'
      BY <2>2, <3>1 DEF NpcLess
    <3>3. QED
      BY <1>1, <3>1, <3>2, RequestsNext
  <2>3. QED
    BY <2>1, <2>2
<1>4. ASSUME NEW n \in DOMAIN OpenRequests'
      PROVE  OpenRequests'[n] = OpenRequests[n]
  <2>1. PICK i \in DOMAIN g_npc' : n = g_npc'[i].npc_id
    BY RequestsNext
  <2>2. i \in DOMAIN g_npc /\ n = g_npc[i].npc_id /\ g_npc'[i] = g_npc[i]
    BY <1>1, <2>1
  <2>3. QED
    BY <2>1, <2>2, RequestsNow, RequestsNext
<1> HIDE DEF D
<1>5. OpenRequests' = [n \in DOMAIN OpenRequests' |-> OpenRequests'[n]]
  BY RequestsNext
<1>6. OpenRequests' = X!Remove(OpenRequests, D)
  BY <1>3, <1>4, <1>5, RemoveIs
<1>7. QED
  BY <1>6 DEF D

LEMMA WantedMore ==
    ASSUME SoleRequests, SoleRequests', NEW n, NEW T, NEW b, NpcMore(n, T, b)
    PROVE  /\ n \notin DOMAIN OpenRequests
           /\ OpenRequests' = X!Insert(OpenRequests, n, [tags |-> T, bounty |-> b])
<1>1. PICK i : /\ i \notin DOMAIN g_npc
               /\ DOMAIN g_npc' = DOMAIN g_npc \cup {i}
               /\ \A j \in DOMAIN g_npc : g_npc'[j] = g_npc[j]
               /\ g_npc'[i] = [npc_id |-> n, required_tags |-> T, bounty |-> b]
  BY DEF NpcMore
<1>2. g_npc'[i].npc_id = n /\ RequestSeen(g_npc'[i]) = [tags |-> T, bounty |-> b]
  BY <1>1 DEF RequestSeen
<1>3. \A j \in DOMAIN g_npc : g_npc[j].npc_id # n
  BY <1>1, <1>2 DEF SoleRequests
<1>4. n \notin DOMAIN OpenRequests
  BY <1>3, RequestsNow
<1>5. DOMAIN OpenRequests' = DOMAIN OpenRequests \cup {n}
  BY <1>1, <1>2, RequestsNow, RequestsNext
<1>6. OpenRequests'[n] = [tags |-> T, bounty |-> b]
  BY <1>1, <1>2, RequestsNext
<1>7. ASSUME NEW k \in DOMAIN OpenRequests
      PROVE  OpenRequests'[k] = OpenRequests[k]
  <2>1. PICK j \in DOMAIN g_npc : k = g_npc[j].npc_id
    BY RequestsNow
  <2>2. j \in DOMAIN g_npc' /\ g_npc'[j] = g_npc[j]
    BY <1>1, <2>1
  <2>3. QED
    BY <2>1, <2>2, RequestsNow, RequestsNext
<1>8. OpenRequests' = [k \in DOMAIN OpenRequests' |-> OpenRequests'[k]]
  BY RequestsNext
<1>9. QED
  BY <1>4, <1>5, <1>6, <1>7, <1>8, InsertIs

-----------------------------------------------------------------------------
\* Every step is one of Exchange, or changes nothing that Exchange sees.

LEMMA SameTables ==
    /\ \A f, S : Vacate(f, S) = X!Remove(f, S)
    /\ \A f, d, y : Fill(f, d, y) = X!Insert(f, d, y)
BY DEF Vacate, Restrict, Fill, X!Remove, X!Restrict, X!Insert

\* Exchange has its own copy of the definition.
LEMMA SameCardinality == \A S : X!Cardinality(S) = Cardinality(S)
BY Zenon DEF X!Cardinality, Cardinality

\* A document is due while a thread is in a passage with it.
LEMMA DueNow ==
    ASSUME TradeTypeOK, NEW u \in User
    PROVE  /\ ~ Passes(u) => DOMAIN Due(u) = {}
           /\ Passes(u) =>
                 /\ th[u].slot.doc_id \in DocId /\ DOMAIN Due(u) = {th[u].slot.doc_id}
                 /\ Due(u)[th[u].slot.doc_id] =
                       [tags |-> th[u].slot.tags, price |-> th[u].slot.base_price]
<1>1. Due(u) = [d \in {e \in DocId : Passes(u) /\ th[u].slot.doc_id = e} |->
                   [tags |-> th[u].slot.tags, price |-> th[u].slot.base_price]]
  BY DEF Due, InPassage, Passes, Passing
<1>2. Passes(u) => th[u].slot.doc_id \in DocId
  <2>1. Passes(u) => th[u].pc \in MovePc
    BY DEF Passes, Passing, MovePc
  <2>2. QED
    BY <2>1, LocalTypes, HandlerElim DEF OfferShown
<1>3. QED
  BY <1>1, <1>2

LEMMA DueNext ==
    ASSUME TradeTypeOK', NEW u \in User
    PROVE  /\ ~ Passes(u)' => DOMAIN Due(u)' = {} /\ Due(u)' = [d \in {} |-> {}]
           /\ Passes(u)' =>
                 /\ DOMAIN Due(u)' = {th'[u].slot.doc_id}
                 /\ Due(u)' = [d \in {th'[u].slot.doc_id} |->
                       [tags |-> th'[u].slot.tags, price |-> th'[u].slot.base_price]]
<1>1. Due(u)' = [d \in {e \in DocId : Passes(u)' /\ th'[u].slot.doc_id = e} |->
                   [tags |-> th'[u].slot.tags, price |-> th'[u].slot.base_price]]
  BY DEF Due, InPassage, Passes, Passing
<1>2. Passes(u)' => th'[u].slot.doc_id \in DocId
  <2>1. Passes(u)' => th'[u].pc \in MovePc
    BY DEF Passes, Passing, MovePc
  <2>2. th'[u] \in HandlerState
    BY DEF TradeTypeOK
  <2>3. QED
    BY <2>1, <2>2, HandlerElim DEF OfferShown
<1>3. CASE ~ Passes(u)'
  <2>1. {e \in DocId : Passes(u)' /\ th'[u].slot.doc_id = e} = {}
    BY <1>3
  <2>2. QED
    BY <1>1, <1>3, <2>1
<1>4. CASE Passes(u)'
  <2>1. {e \in DocId : Passes(u)' /\ th'[u].slot.doc_id = e} = {th'[u].slot.doc_id}
    BY <1>2, <1>4
  <2>2. QED
    BY <1>1, <1>4, <2>1
<1>5. QED
  BY <1>3, <1>4

LEMMA DueSame ==
    ASSUME NEW u, ThreadSame(u)
    PROVE  Due(u)' = Due(u)
<1>1. CASE Passes(u)
  BY <1>1 DEF ThreadSame, Due, InPassage, Passes, Passing
<1>2. CASE ~ Passes(u)
  <2>1. {e \in DocId : InPassage(u, e)} = {} /\ {e \in DocId : InPassage(u, e)'} = {}
    BY <1>2 DEF ThreadSame, InPassage, Passes, Passing
  <2>2. QED
    BY <2>1 DEF Due
<1>3. QED
  BY <1>1, <1>2

LEMMA DuesSame ==
    ASSUME ThreadsSame
    PROVE  Dues' = Dues
BY DueSame DEF ThreadsSame, Dues

LEMMA DuesOne ==
    ASSUME NEW u \in User, OthersSame(u)
    PROVE  Dues[u] = Due(u) /\ Dues' = [Dues EXCEPT ![u] = Due(u)']
BY DueSame DEF OthersSame, Dues

\* What a step leaves of the players that were not raided.
LEMMA NobodySeen ==
    ASSUME raided' = raided, \A v \in User \ raided : Unseen(v)
    PROVE  Purses' = Purses /\ Hands' = Hands
BY DEF Unseen, Purses, Hands

LEMMA MoneySeen ==
    ASSUME raided' = raided, NEW u \in User, NEW m,
           \A v \in User \ raided : Purse(v)' = IF v = u THEN Purse(v) + m ELSE Purse(v)
    PROVE  X!Gets(u, m)
BY DEF Purses, X!Gets

LEMMA SamePurses ==
    ASSUME raided' = raided, \A v \in User \ raided : Purse(v)' = Purse(v)
    PROVE  Purses' = Purses
BY DEF Purses

LEMMA SameHands ==
    ASSUME raided' = raided, \A v \in User \ raided : Holds(v)' = Holds(v)
    PROVE  Hands' = Hands
BY DEF Hands

LEMMA OneSeen ==
    ASSUME raided' = raided, NEW u \in User \ raided,
           \A v \in User \ raided : v # u => Unseen(v)
    PROVE  /\ u \in DOMAIN Purses /\ u \in DOMAIN Hands
           /\ Purses[u] = Purse(u) /\ Hands[u] = Holds(u)
           /\ Purses' = [Purses EXCEPT ![u] = Purse(u)']
           /\ Hands' = [Hands EXCEPT ![u] = Holds(u)']
BY DEF Unseen, Purses, Hands

LEMMA OthersUnseen ==
    ASSUME TradeTypeOK, ExchangeInv, Record, NEW u \in User, Request(u) \/ Handler(u)
    PROVE  /\ raided' = raided
           /\ \A v \in User \ raided : v # u => Unseen(v)
<1>1. raided' = raided
  BY HandlerTouches, RaidedGrows
<1>2. ASSUME NEW v \in User, v # u
      PROVE  Unseen(v)
  <2>1. th'[v] = th[v] /\ users_dat'[v] = users_dat[v] /\ sandbox'[v] = sandbox[v]
    BY <1>2, OthersIdle
  <2>2. QED
    BY <2>1, LocalIdle
<1>3. QED
  BY <1>1, <1>2

\* Most calls of a handler take nothing off the board and hand nothing over.
LEMMA CallQuiet ==
    ASSUME TradeTypeOK, NEW u \in User, Request(u) \/ Handler(u),
           ~ BuyTake(u), ~ BuyMove(u), ~ BuyUndo(u)
    PROVE  ThreadsSame /\ BoardSame
<1>1. Strangers({}) /\ TypesWith({})
  BY PlainTypes
<1>2. CASE Request(u)
  BY <1>1, <1>2, BuyFindKind, HandleDisposeKind, SellFindKind DEF Request, Quiet
<1>3. CASE BuyCount(u) \/ BuyMoney(u) \/ BuyPay(u) \/ BustMoney(u) \/ BustCount(u)
              \/ BustBurn(u) \/ SellPay(u)
  BY <1>1, <1>3, BuyCountKind, BuyMoneyKind, BustKind, PayKind DEF Quiet
<1>4. CASE SellCheck(u) \/ SellTake(u) \/ SellDispose(u) \/ SellMoney(u)
  BY <1>1, <1>4, SellCheckKind, SellTakeKind, SellDisposeKind, SellMoneyKind DEF Quiet
<1>5. QED
  BY <1>2, <1>3, <1>4 DEF Handler

\* A call that leaves the board, and the player unless raided, as Exchange sees them.
LEMMA CallUnseen ==
    ASSUME TradeTypeOK, ExchangeInv, Record, NEW u \in User, Request(u) \/ Handler(u),
           UNCHANGED vars, ThreadsSame, u \notin raided => Unseen(u)
    PROVE  UNCHANGED X!goods
<1>1. Purses' = Purses /\ Hands' = Hands
  <2>1. raided' = raided /\ \A v \in User \ raided : Unseen(v)
    BY OthersUnseen
  <2>2. QED
    BY <2>1, NobodySeen
<1>2. g_market' = g_market /\ g_npc' = g_npc /\ g_frozen_tags' = g_frozen_tags
  BY DEF vars
<1>3. ShownOffers' = ShownOffers
  BY <1>2 DEF ShownOffers, OnBoard, SlotOf
<1>4. QED
  BY <1>1, <1>2, <1>3, WantedSame, DuesSame DEF X!goods

\* market_take is the purchase, or finds the offer gone or frozen.
LEMMA TakeOutcome ==
    ASSUME TradeTypeOK, NEW u \in User, BuyTake(u)
    PROVE  \/ UNCHANGED vars /\ ThreadsSame /\ ~ Passes(u)'
           \/ \E i \in DOMAIN g_market :
                 /\ BoardLess({i}) /\ ~ g_market[i].is_frozen
                 /\ UNCHANGED <<g_npc, g_frozen_tags>>
                 /\ th'[u].slot = Shown(g_market[i])
                 /\ ~ Passes(u) /\ Passes(u)' /\ OthersSame(u)
<1>1. Quiet \/ \E i : Takes(u, i)
  BY PlainTypes, BuyTakeKind
<1>2. ~ Passes(u)
  BY DEF BuyTake, At, Passes, Passing
<1>3. CASE UNCHANGED vars /\ Goto(u, CheckBust)
  <2>1. ~ Passes(u)'
    BY <1>3, Goes, ReadyIdle DEF Passes, Passing
  <2>2. ThreadsSame
    BY <1>1, <2>1 DEF Quiet, Takes
  <2>3. QED
    BY <1>3, <2>1, <2>2
<1>4. ASSUME NEW i \in market_find(th[u].doc_id), market_take(th[u].doc_id),
             Goto(u, [pc |-> "buy_move", slot |-> Shown(g_market[i]), money |-> th[u].money])
      PROVE  /\ i \in DOMAIN g_market
             /\ BoardLess({i}) /\ ~ g_market[i].is_frozen
             /\ UNCHANGED <<g_npc, g_frozen_tags>>
             /\ th'[u].slot = Shown(g_market[i])
             /\ Passes(u)' /\ OthersSame(u)
  <2>1. BoardLess({i}) /\ i \in DOMAIN g_market /\ ~ g_market[i].is_frozen
    BY <1>4, TakeEffect DEF TradeTypeOK
  <2>2. th'[u].pc = "buy_move" /\ th'[u].slot = Shown(g_market[i])
    BY <1>4, Goes
  <2>3. Passes(u)'
    BY <2>2 DEF Passes, Passing
  <2>4. OthersSame(u)
    BY <1>1, <1>2, <2>3 DEF Quiet, Takes, ThreadsSame, ThreadSame
  <2>5. UNCHANGED <<g_npc, g_frozen_tags>>
    BY <1>4 DEF market_take
  <2>6. QED
    BY <2>1, <2>2, <2>3, <2>4, <2>5
<1>5. QED
  BY <1>2, <1>3, <1>4 DEF BuyTake

\* The purchase, at market_take.
LEMMA BuyRefines ==
    ASSUME TradeTypeOK, TradeTypeOK', ExchangeInv, Record, SoleOffers, SoleOffers',
           NEW u \in User, Affords(u), BuyTake(u)
    PROVE  X!Deal \/ UNCHANGED X!goods
<1>1. Handler(u)
  BY DEF Handler
<1>2. /\ raided' = raided
      /\ \A v \in User \ raided : v # u => Purse(v)' = Purse(v) /\ Holds(v)' = Holds(v)
  BY <1>1, OthersUnseen DEF Unseen
<1>3. u \notin raided => /\ Local(u)
                         /\ ~ Passes(u)' => Unseen(u)
  BY BuyTakes DEF ExchangeInv
<1>4. CASE UNCHANGED vars /\ ThreadsSame /\ ~ Passes(u)'
  BY <1>1, <1>3, <1>4, CallUnseen
<1>5. ASSUME NEW i \in DOMAIN g_market,
             BoardLess({i}), ~ g_market[i].is_frozen, UNCHANGED <<g_npc, g_frozen_tags>>,
             th'[u].slot = Shown(g_market[i]), ~ Passes(u), Passes(u)', OthersSame(u)
      PROVE  X!Deal
  <2>1. PICK d, T, p : d = g_market[i].doc_id /\ T = g_market[i].tags
                          /\ p = g_market[i].base_price
    OBVIOUS
  <2>2. /\ th'[u].slot.doc_id = d /\ th'[u].slot.tags = T
        /\ th'[u].slot.base_price = p
    BY <1>5, <2>1 DEF Shown
  <2>3. /\ d \in DOMAIN ShownOffers /\ ShownOffers[d] = [tags |-> T, price |-> p]
        /\ ShownOffers[d].tags = T /\ ShownOffers[d].price = p
    BY <1>5, <2>1, OffersNow DEF OfferSeen
  <2>4. T \cap g_frozen_tags = {}
    BY <1>5, <2>1 DEF ExchangeInv, FrozenFlagMatchesMask, Overlap
  <2>5. ShownOffers' = X!Remove(ShownOffers, {d})
    <3>1. {g_market[j].doc_id : j \in {i}} = {d}
      BY <2>1
    <3>2. QED
      BY <1>5, <3>1, ShownLess
  <2>6. u \notin raided => /\ Purse(u) \in Int /\ p \in Int /\ p <= Purse(u)
                           /\ Cardinality(DOMAIN Holds(u)) < MAX_INVEN_SIZE
                           /\ Purse(u)' = Purse(u) - p /\ Holds(u)' = Holds(u)
    BY <1>3, <1>5, <2>2, BuyTakes
  <2>7. u \in DOMAIN Purses =>
           Purses[u] >= p /\ X!Cardinality(DOMAIN Hands[u]) < MAX_INVEN_SIZE
    <3>1. u \in DOMAIN Purses => u \notin raided /\ Purses[u] = Purse(u) /\ Hands[u] = Holds(u)
      BY DEF Purses, Hands
    <3>2. QED
      BY <2>6, <3>1, SameCardinality
  <2>8. X!Gets(u, - p)
    <3>1. PICK m : m = - p
      OBVIOUS
    <3>2. u \notin raided => Purse(u)' = Purse(u) + m
      BY <2>6, <3>1
    <3>3. X!Gets(u, m)
      BY <1>2, <3>2, MoneySeen
    <3>4. QED
      BY <3>1, <3>3
  <2>9. Hands' = Hands
    BY <1>2, <2>6, SameHands
  <2>10. DOMAIN Dues[u] = {} /\ Dues' = [Dues EXCEPT ![u] = X!Insert(@, d, ShownOffers[d])]
    <3>1. DOMAIN Due(u) = {} /\ Dues[u] = Due(u) /\ Dues' = [Dues EXCEPT ![u] = Due(u)']
      BY <1>5, DueNow, DuesOne
    <3>2. Due(u)' = [e \in {d} |-> [tags |-> T, price |-> p]]
      BY <1>5, <2>2, DueNext
    <3>3. X!Insert(Due(u), d, ShownOffers[d]) = [e \in {d} |-> [tags |-> T, price |-> p]]
      BY <2>3, <3>1 DEF X!Insert
    <3>4. QED
      BY <3>1, <3>2, <3>3
  <2>11. UNCHANGED <<OpenRequests, g_frozen_tags>>
    BY <1>5, WantedSame
  <2>12. X!Buy(u, d)
    BY <2>3, <2>4, <2>5, <2>7, <2>8, <2>9, <2>10, <2>11, Zenon DEF X!Buy
  <2>13. d \in DocId
    <3>1. g_market[i] \in MarketSlot
      BY <1>5, TableElim DEF TradeTypeOK, TypeOK
    <3>2. QED
      BY <2>1, <3>1 DEF MarketSlot
  <2>14. QED
    BY <2>12, <2>13 DEF X!Deal
<1>6. QED
  BY <1>4, <1>5, TakeOutcome

\* The document comes, or is still due after a rename that failed.
LEMMA MoveRefines ==
    ASSUME TradeTypeOK, TradeTypeOK', CustodyInv, ExchangeInv, Record,
           NEW u \in User, BuyMove(u)
    PROVE  X!Deal \/ UNCHANGED X!goods
<1>1. Handler(u) /\ UNCHANGED vars /\ Passes(u)
  BY DEF Handler, BuyMove, At, Passes, Passing
<1>2. /\ raided' = raided
      /\ \A v \in User \ raided : v # u => Purse(v)' = Purse(v) /\ Holds(v)' = Holds(v)
  BY <1>1, OthersUnseen DEF Unseen
<1>3. u \notin raided => Local(u)
  BY DEF ExchangeInv
<1>4. CASE Quiet
  <2>1. ThreadsSame /\ Passes(u)'
    BY <1>1, <1>4 DEF Quiet, ThreadsSame, ThreadSame
  <2>2. u \notin raided => Unseen(u)
    BY <1>3, <2>1, BuyMoves
  <2>3. QED
    BY <1>1, <2>1, <2>2, CallUnseen
<1>5. CASE Moves(u)
  <2>1. ~ Passes(u)' /\ OthersSame(u)
    BY <1>5 DEF Moves
  <2>2. PICK d, T : d = th[u].slot.doc_id /\ T = th[u].slot.tags
    OBVIOUS
  <2>3. u \notin raided => Purse(u)' = Purse(u) /\ Holds(u)' = X!Insert(Holds(u), d, T)
    BY <1>3, <2>1, <2>2, BuyMoves, SameTables
  <2>4. /\ d \in DocId /\ Dues[u] = Due(u) /\ DOMAIN Due(u) = {d} /\ Due(u)[d].tags = T
        /\ Dues' = [Dues EXCEPT ![u] = Due(u)']
    <3>1. PICK p : p = th[u].slot.base_price
      OBVIOUS
    <3>2. d \in DocId /\ DOMAIN Due(u) = {d} /\ Due(u)[d] = [tags |-> T, price |-> p]
      BY <1>1, <2>2, <3>1, DueNow
    <3>3. Dues[u] = Due(u) /\ Dues' = [Dues EXCEPT ![u] = Due(u)']
      BY <2>1, DuesOne
    <3>4. QED
      BY <3>2, <3>3
  <2>5. Due(u)' = X!Remove(Due(u), {d})
    BY <2>1, <2>4, DueNext DEF X!Remove, X!Restrict
  <2>6. Purses' = Purses
    BY <1>2, <2>3, SamePurses
  <2>7. Hands' = [v \in DOMAIN Hands |->
                     IF v = u THEN X!Insert(Hands[v], d, Dues[v][d].tags) ELSE Hands[v]]
    BY <1>2, <2>3, <2>4 DEF Hands
  <2>8. UNCHANGED <<ShownOffers, OpenRequests, g_frozen_tags>>
    BY <1>1, WantedSame DEF vars, ShownOffers, OnBoard, SlotOf
  <2>9. X!Deliver(u, d)
    BY <2>4, <2>5, <2>6, <2>7, <2>8 DEF X!Deliver
  <2>10. QED
    BY <2>4, <2>9 DEF X!Deal
<1>6. QED
  BY <1>4, <1>5, PlainTypes, BuyMoveKind

\* What does not come is not paid for.
LEMMA UndoRefines ==
    ASSUME TradeTypeOK, TradeTypeOK', ExchangeInv, Record, SoleOffers, SoleOffers',
           NEW u \in User, BuyUndo(u)
    PROVE  X!Deal
<1>1. Handler(u)
  BY DEF Handler
<1>2. /\ raided' = raided
      /\ \A v \in User \ raided : v # u => Purse(v)' = Purse(v) /\ Holds(v)' = Holds(v)
  BY <1>1, OthersUnseen DEF Unseen
<1>3. PICK d, T, p : d = th[u].slot.doc_id /\ T = th[u].slot.tags /\ p = th[u].slot.base_price
  OBVIOUS
<1>4. u \notin raided => Purse(u)' = Purse(u) + p /\ Holds(u)' = Holds(u)
  BY <1>3, BuyUndoes DEF ExchangeInv
<1>5. Relists(u) \/ Loses(u)
  BY PlainTypes, BuyUndoKind
<1>6. Passes(u) /\ ~ Passes(u)' /\ OthersSame(u)
  BY <1>5 DEF Relists, Loses
<1>7. /\ d \in DocId /\ Dues[u] = Due(u) /\ DOMAIN Due(u) = {d}
      /\ Due(u)[d] = [tags |-> T, price |-> p]
      /\ Dues' = [Dues EXCEPT ![u] = Due(u)']
  BY <1>3, <1>6, DueNow, DuesOne
<1>8. Due(u)' = X!Remove(Due(u), {d})
  BY <1>6, <1>7, DueNext DEF X!Remove, X!Restrict
<1>9. X!Gets(u, p)
  BY <1>2, <1>4, MoneySeen
<1>10. Hands' = Hands
  BY <1>2, <1>4, SameHands
<1>11. \/ /\ d \notin DOMAIN ShownOffers
          /\ ShownOffers' = X!Insert(ShownOffers, d, [tags |-> T, price |-> p])
       \/ ShownOffers' = ShownOffers
  BY <1>3, <1>5, ShownMore, ShownSame DEF Relists, Loses
<1>12. UNCHANGED <<OpenRequests, g_frozen_tags>>
  BY WantedSame DEF BuyUndo, vars, market_add
<1>13. X!Refund(u, d)
  <2>1. Dues[u][d].price = p /\ Dues[u][d] = [tags |-> T, price |-> p] /\ d \in DOMAIN Dues[u]
    BY <1>7
  <2>2. Dues' = [Dues EXCEPT ![u] = X!Remove(@, {d})]
    BY <1>7, <1>8
  <2>3. QED
    BY <1>9, <1>10, <1>11, <1>12, <2>1, <2>2, Zenon DEF X!Refund
<1>14. QED
  BY <1>7, <1>13 DEF X!Deal

\* The sale, at npc_take.
LEMMA SellRefines ==
    ASSUME TradeTypeOK, ExchangeInv, Record, SoleRequests', NEW u \in User, SellTake(u)
    PROVE  X!Deal \/ UNCHANGED X!goods
<1>1. Handler(u) /\ ThreadsSame
  <2>1. Handler(u) /\ ~ BuyTake(u) /\ ~ BuyMove(u) /\ ~ BuyUndo(u)
    BY DEF Handler, SellTake, BuyTake, BuyMove, BuyUndo, At
  <2>2. QED
    BY <2>1, CallQuiet
<1>2. /\ raided' = raided
      /\ \A v \in User \ raided : v # u => Purse(v)' = Purse(v) /\ Holds(v)' = Holds(v)
  BY <1>1, OthersUnseen DEF Unseen
<1>3. SameRequest(u) /\ (u \notin raided => Local(u) /\ Guarded(u))
  BY DEF ExchangeInv
<1>4. CASE UNCHANGED vars
  <2>1. u \notin raided => Unseen(u)
    <3>1. SUFFICES ASSUME u \notin raided, \E n : npc_take(n)
                   PROVE  FALSE
      BY <1>3, SellTakes
    <3>2. PICK n : npc_take(n)
      BY <3>1
    <3>3. PICK i \in npc_find(n) : g_npc' = Vacate(g_npc, {i})
      BY <3>2 DEF npc_take
    <3>4. i \in DOMAIN g_npc
      BY <3>2, <3>3, NpcTaken DEF TradeTypeOK
    <3>5. i \notin DOMAIN g_npc'
      BY <3>3, SameTables DEF X!Remove, X!Restrict
    <3>6. QED
      BY <1>4, <3>4, <3>5 DEF vars
  <2>2. QED
    BY <1>1, <1>4, <2>1, CallUnseen
<1>5. ASSUME NEW n \in NpcId, NEW i \in npc_find(n), npc_take(n),
             u \notin raided =>
                \E D \in SUBSET DocId :
                   /\ D = th[u].ids /\ th[u].pc = "sell_check" /\ th[u].todo = {}
                   /\ th'[u].pc = "sell_dispose"
                   /\ D # {} /\ D \subseteq DOMAIN Holds(u)
                   /\ \A t \in g_npc[i].required_tags : \E d \in D : t \in Holds(u)[d]
                   /\ Purse(u)' = Purse(u) + g_npc[i].bounty
                   /\ Holds(u)' = Vacate(Holds(u), D)
      PROVE  X!Deal
  <2>1. NpcLess({i}) /\ i \in DOMAIN g_npc /\ g_npc[i].npc_id = n /\ SoleRequests
    BY <1>5, NpcTaken DEF TradeTypeOK, ExchangeInv
  <2>2. PICK T, b : T = g_npc[i].required_tags /\ b = g_npc[i].bounty
    OBVIOUS
  <2>3. /\ n \in DOMAIN OpenRequests /\ OpenRequests[n] = [tags |-> T, bounty |-> b]
        /\ OpenRequests[n].tags = T /\ OpenRequests[n].bounty = b
    BY <2>1, <2>2, RequestsNow DEF RequestSeen
  <2>4. OpenRequests' = X!Remove(OpenRequests, {n})
    <3>1. {g_npc[j].npc_id : j \in {i}} = {n}
      BY <2>1
    <3>2. QED
      BY <2>1, <3>1, WantedLess
  <2>5. UNCHANGED <<ShownOffers, g_frozen_tags, Dues>>
    <3>1. g_market' = g_market /\ g_frozen_tags' = g_frozen_tags
      BY <1>5 DEF npc_take
    <3>2. QED
      BY <1>1, <3>1, DuesSame DEF ShownOffers, OnBoard, SlotOf
  <2>6. CASE u \in raided
    <3>1. Purses' = Purses /\ Hands' = Hands
      BY <1>2, <2>6, NobodySeen DEF Unseen
    <3>2. X!Lapse({n})
      BY <2>4, <2>5, <3>1 DEF X!Lapse
    <3>3. QED
      BY <2>3, <3>2 DEF X!Deal
  <2>7. CASE u \notin raided
    <3>1. PICK D \in SUBSET DocId :
             /\ D = th[u].ids /\ th[u].pc = "sell_check" /\ th[u].todo = {}
             /\ th'[u].pc = "sell_dispose"
             /\ D # {} /\ D \subseteq DOMAIN Holds(u)
             /\ \A t \in T : \E d \in D : t \in Holds(u)[d]
             /\ Purse(u)' = Purse(u) + b
             /\ Holds(u)' = Vacate(Holds(u), D)
      BY <1>5, <2>2, <2>7
    <3>2. /\ u \in DOMAIN Purses /\ u \in DOMAIN Hands
          /\ Hands[u] = Holds(u) /\ Hands' = [Hands EXCEPT ![u] = Holds(u)']
      BY <1>2, <2>7, OneSeen DEF Unseen
    <3>3. D \subseteq DOMAIN Hands[u] /\ T \subseteq UNION {Hands[u][d] : d \in D}
      BY <3>1, <3>2
    <3>4. u \in DOMAIN barred /\ \A d \in D : Hands[u][d] \cap barred[u] = {}
      <4>1. Holds(u) = sandbox[u]
        BY <3>1, SeenNow
      <4>2. \A d \in D : sandbox[u][d] \cap barred[u] = {}
        BY <1>3, <2>7, <3>1 DEF Guarded
      <4>3. u \in UnderWay
        BY <3>1 DEF UnderWay, At
      <4>4. QED
        BY <3>2, <4>1, <4>2, <4>3 DEF ExchangeInv
    <3>5. u \notin DOMAIN barred'
      <4>1. u \notin UnderWay'
        BY <3>1, EventAssumption DEF UnderWay, At
      <4>2. QED
        BY <4>1 DEF Record
    <3>6. X!Gets(u, b)
      BY <1>2, <3>1, MoneySeen
    <3>7. Hands' = [Hands EXCEPT ![u] = X!Remove(@, D)]
      BY <3>1, <3>2, SameTables
    <3>8. X!Sell(u, n, D)
      <4>1. /\ OpenRequests[n].tags \subseteq UNION {Hands[u][d] : d \in D}
            /\ X!Gets(u, OpenRequests[n].bounty)
        BY <2>3, <3>3, <3>6
      <4>2. n \in DOMAIN OpenRequests /\ D # {} /\ D \subseteq DOMAIN Hands[u]
        BY <2>3, <3>1, <3>3
      <4>3. QED
        BY <2>4, <2>5, <3>2, <3>4, <3>5, <3>7, <4>1, <4>2, Zenon DEF X!Sell
    <3>9. QED
      BY <2>3, <3>8 DEF X!Deal
  <2>8. QED
    BY <2>6, <2>7
<1>6. CASE ~ UNCHANGED vars
  <2>1. CASE u \notin raided
    <3>1. \E n \in NpcId, D \in SUBSET DocId : \E i \in npc_find(n) :
             /\ npc_take(n)
             /\ D = th[u].ids /\ th[u].pc = "sell_check" /\ th[u].todo = {}
             /\ th'[u].pc = "sell_dispose"
             /\ D # {} /\ D \subseteq DOMAIN Holds(u)
             /\ \A t \in g_npc[i].required_tags : \E d \in D : t \in Holds(u)[d]
             /\ Purse(u)' = Purse(u) + g_npc[i].bounty
             /\ Holds(u)' = Vacate(Holds(u), D)
      BY <1>3, <1>6, <2>1, SellTakes
    <3>2. QED
      BY <1>5, <3>1
  <2>2. CASE u \in raided
    <3>1. PICK n : n = th[u].npc_id
      OBVIOUS
    <3>2. npc_take(n) /\ \E i \in npc_find(n) : TRUE
      BY <1>6, <3>1 DEF SellTake
    <3>3. n \in NpcId
      BY <3>1, LocalTypes, HandlerElim DEF SellTake, At
    <3>4. QED
      BY <1>5, <2>2, <3>2, <3>3
  <2>3. QED
    BY <2>1, <2>2
<1>7. QED
  BY <1>4, <1>6

LEMMA DiscardRefines ==
    ASSUME TradeTypeOK, ExchangeInv, Record, NEW u \in User, NEW d \in DocId,
           handle_dispose(u, d)
    PROVE  X!Deal \/ UNCHANGED X!goods
<1>1. Request(u) /\ ThreadsSame /\ UNCHANGED vars
  <2>1. Request(u) /\ ~ BuyTake(u) /\ ~ BuyMove(u) /\ ~ BuyUndo(u)
    BY DEF Request, handle_dispose, BuyTake, BuyMove, BuyUndo, At
  <2>2. QED
    BY <2>1, CallQuiet DEF handle_dispose
<1>2. CASE u \in raided
  BY <1>1, <1>2, CallUnseen
<1>3. CASE u \notin raided
  <2>1. /\ raided' = raided
        /\ \A v \in User \ raided : v # u => Unseen(v)
    BY <1>1, OthersUnseen
  <2>2. /\ d \in DOMAIN Holds(u) /\ Holds(u)' = Vacate(Holds(u), {d})
        /\ Purse(u)' = Purse(u)
    BY <1>3, Disposes DEF ExchangeInv
  <2>3. /\ u \in DOMAIN Hands /\ Hands[u] = Holds(u)
        /\ Hands' = [Hands EXCEPT ![u] = Holds(u)']
    BY <1>3, <2>1, OneSeen
  <2>4. Hands' = [Hands EXCEPT ![u] = X!Remove(@, {d})]
    BY <2>2, <2>3, SameTables
  <2>5. Purses' = Purses
    BY <2>1, <2>2, SamePurses DEF Unseen
  <2>6. UNCHANGED <<ShownOffers, OpenRequests, g_frozen_tags, Dues>>
    BY <1>1, WantedSame, DuesSame DEF vars, ShownOffers, OnBoard, SlotOf
  <2>7. X!Discard(u, d)
    BY <2>2, <2>3, <2>4, <2>5, <2>6 DEF X!Discard
  <2>8. QED
    BY <2>7 DEF X!Deal
<1>4. QED
  BY <1>2, <1>3

LEMMA BustRefines ==
    ASSUME TradeTypeOK, ExchangeInv, Record, NEW u \in User, BustBurn(u)
    PROVE  X!Deal \/ UNCHANGED X!goods
<1>1. Handler(u) /\ ThreadsSame /\ UNCHANGED vars /\ ~ Passes(u)
  <2>1. Handler(u) /\ ~ BuyTake(u) /\ ~ BuyMove(u) /\ ~ BuyUndo(u) /\ ~ Passes(u)
    BY DEF Handler, BustBurn, BuyTake, BuyMove, BuyUndo, At, Passes, Passing
  <2>2. QED
    BY <2>1, CallQuiet DEF BustBurn
<1>2. CASE u \in raided
  BY <1>1, <1>2, CallUnseen
<1>3. CASE u \notin raided
  <2>1. /\ raided' = raided
        /\ \A v \in User \ raided : v # u => Unseen(v)
    BY <1>1, OthersUnseen
  <2>2. /\ Purse(u) = 0 /\ DOMAIN Holds(u) = {}
        /\ Purse(u)' = BURNED /\ Holds(u)' = Holds(u)
    BY <1>3, BustBurns DEF ExchangeInv
  <2>3. /\ u \in DOMAIN Purses /\ Purses[u] = Purse(u) /\ Hands[u] = Holds(u)
        /\ Purses' = [Purses EXCEPT ![u] = Purse(u)']
    BY <1>3, <2>1, OneSeen
  <2>4. Hands' = Hands
    BY <2>1, <2>2, SameHands DEF Unseen
  <2>5. DOMAIN Dues[u] = {}
    BY <1>1, DueNow DEF Dues
  <2>6. UNCHANGED <<ShownOffers, OpenRequests, g_frozen_tags, Dues>>
    BY <1>1, WantedSame, DuesSame DEF vars, ShownOffers, OnBoard, SlotOf
  <2>7. X!GoBust(u)
    BY <2>2, <2>3, <2>4, <2>5, <2>6 DEF X!GoBust
  <2>8. QED
    BY <2>7 DEF X!Deal
<1>4. QED
  BY <1>2, <1>3

\* The steps of a handler.
LEMMA HandlerRefines ==
    ASSUME TradeTypeOK, TradeTypeOK', CustodyInv, ExchangeInv, Record, SoleOffers,
           SoleOffers', SoleRequests', NEW u \in User, Affords(u), Request(u) \/ Handler(u)
    PROVE  X!Deal \/ UNCHANGED X!goods
<1>1. CASE \E d \in DocId : handle_dispose(u, d)
  BY <1>1, DiscardRefines
<1>2. CASE BuyTake(u)
  BY <1>2, BuyRefines
<1>3. CASE BuyMove(u)
  BY <1>3, MoveRefines
<1>4. CASE BuyUndo(u)
  BY <1>4, UndoRefines
<1>5. CASE SellTake(u)
  BY <1>5, SellRefines
<1>6. CASE BustBurn(u)
  BY <1>6, BustRefines
<1>7. CASE \/ \E d \in DocId : BuyFind(u, d)
           \/ \E n \in NpcId, ids \in SUBSET DocId : SellFind(u, n, ids)
           \/ BuyCount(u) \/ BuyMoney(u) \/ BuyPay(u)
           \/ BustMoney(u) \/ BustCount(u)
           \/ SellCheck(u) \/ SellDispose(u) \/ SellMoney(u) \/ SellPay(u)
  <2>1. Local(u) => Unseen(u)
    BY <1>7, BuyReads, BuyPays, BustReads, SellReads, SellDisposes, SellPays
  <2>2. UNCHANGED vars /\ ~ (th[u].pc \in {"buy_take", "buy_move", "buy_undo"})
    <3>1. CASE \/ \E d \in DocId : BuyFind(u, d)
               \/ \E n \in NpcId, ids \in SUBSET DocId : SellFind(u, n, ids)
      BY <3>1 DEF BuyFind, SellFind, At
    <3>2. CASE BuyCount(u) \/ BuyMoney(u) \/ BuyPay(u)
      BY <3>2 DEF BuyCount, BuyMoney, BuyPay, At
    <3>3. CASE BustMoney(u) \/ BustCount(u)
      BY <3>3 DEF BustMoney, BustCount, At
    <3>4. CASE SellCheck(u)
      BY <3>4 DEF SellCheck, At
    <3>5. CASE SellDispose(u) \/ SellMoney(u) \/ SellPay(u)
      BY <3>5 DEF SellDispose, SellMoney, SellPay, At
    <3>6. QED
      BY <1>7, <3>1, <3>2, <3>3, <3>4, <3>5
  <2>3. ~ BuyTake(u) /\ ~ BuyMove(u) /\ ~ BuyUndo(u)
    BY <2>2 DEF BuyTake, BuyMove, BuyUndo, At
  <2>4. ThreadsSame
    BY <2>3, CallQuiet
  <2>5. QED
    BY <2>1, <2>2, <2>4, CallUnseen DEF ExchangeInv
<1>8. QED
  BY <1>1, <1>2, <1>3, <1>4, <1>5, <1>6, <1>7 DEF Request, Handler

\* A raid takes its victim from what Exchange sees, and the purge goes unseen.
LEMMA RaidRefines ==
    ASSUME TradeTypeOK, ExchangeInv, Record, (\E u \in User : RaidBurn(u)) \/ RaidPurge
    PROVE  X!Deal \/ UNCHANGED X!goods
<1>1. UNCHANGED <<ShownOffers, OpenRequests, g_frozen_tags, Dues>>
  <2>1. ThreadsSame
    BY PlainTypes, RaidKind DEF Quiet
  <2>2. UNCHANGED vars
    BY DEF RaidBurn, RaidPurge
  <2>3. QED
    BY <2>1, <2>2, WantedSame, DuesSame DEF vars, ShownOffers, OnBoard, SlotOf
<1>2. \A v \in User \ raided' : Unseen(v)
  <2>1. ASSUME NEW v \in User \ raided'
        PROVE  th'[v] = th[v] /\ users_dat'[v] = users_dat[v] /\ sandbox'[v] = sandbox[v]
    BY RaidSpares
  <2>2. QED
    BY <2>1, LocalIdle
<1>3. CASE RaidPurge
  <2>1. raided' = raided
    BY <1>3, RaidedGrows
  <2>2. QED
    BY <1>1, <1>2, <2>1, NobodySeen DEF X!goods
<1>4. ASSUME NEW u \in User, RaidBurn(u)
      PROVE  X!Deal
  <2>1. raided' = raided \cup {u}
    BY <1>4, RaidedGrows
  <2>2. DOMAIN Purses \ {u} = User \ raided' /\ DOMAIN Hands \ {u} = User \ raided'
    BY <2>1 DEF Purses, Hands
  <2>3. Purses' = X!Remove(Purses, {u}) /\ Hands' = X!Remove(Hands, {u})
    BY <1>2, <2>1, <2>2 DEF Unseen, Purses, Hands, X!Remove, X!Restrict
  <2>4. X!Raid(u)
    BY <1>1, <2>3 DEF X!Raid
  <2>5. QED
    BY <2>4 DEF X!Deal
<1>5. QED
  BY <1>3, <1>4

\* The other threads leave the players alone.
LEMMA EventsUnseen ==
    ASSUME TradeTypeOK, ExchangeInv, Record, Spawner \/ World
    PROVE  Purses' = Purses /\ Hands' = Hands /\ Dues' = Dues
<1>1. th' = th /\ users_dat' = users_dat /\ sandbox' = sandbox /\ raid' = raid
  BY EventsIdle
<1>2. raided' = raided
  BY <1>1, RaidedGrows
<1>3. \A v \in User : Unseen(v)
  BY <1>1, LocalIdle
<1>4. ThreadsSame
  BY <1>1 DEF ThreadsSame, ThreadSame, Passes
<1>5. QED
  BY <1>2, <1>3, <1>4, NobodySeen, DuesSame

LEMMA HeldMeans ==
    ASSUME NEW u
    PROVE  \A d \in DOMAIN Holds(u) : sandbox_has(u, d)
<1>1. CASE th[u].pc = "sell_dispose"
  <2>1. DOMAIN Holds(u) \subseteq DOMAIN sandbox[u]
    BY <1>1, SeenNow DEF Vacate, Restrict
  <2>2. QED
    BY <2>1 DEF sandbox_has
<1>2. CASE th[u].pc # "sell_dispose"
  BY <1>2, SeenNow DEF sandbox_has
<1>3. QED
  BY <1>1, <1>2

\* The spawner lists a document that nobody has, with tags that were not frozen when it
\* chose them.
LEMMA OfferRefines ==
    ASSUME TradeTypeOK, CustodyInv, ExchangeInv, Record, SoleOffers, SoleOffers', SpawnAdd,
           market_add(ev.doc_id, ev.tags, ev.base_price), ev' = [pc |-> "idle"]
    PROVE  X!Deal
<1>1. ev.pc = "spawn_add" /\ ev \in EventState
  BY DEF SpawnAdd, TradeTypeOK
<1>2. PICK d \in DocId, T \in SUBSET Tag, p \in Price :
         d = ev.doc_id /\ T = ev.tags /\ p = ev.base_price
  BY <1>1, EventForms
<1>3. market_add(d, T, p)
  BY <1>2
<1>4. BoardMore(d, T, p)
  BY <1>3, AddEffect DEF TradeTypeOK
<1>5. /\ d \notin DOMAIN ShownOffers
      /\ ShownOffers' = X!Insert(ShownOffers, d, [tags |-> T, price |-> p])
  BY <1>4, ShownMore
<1>6. ~ X!GivenOut(d)
  <2>1. WithSpawner(d)
    BY <1>1, <1>2 DEF WithSpawner
  <2>2. \A u \in User : ~ InPassage(u, d) /\ ~ sandbox_has(u, d)
    BY <2>1 DEF CustodyInv, Sole
  <2>3. \A u \in DOMAIN Hands : d \notin DOMAIN Hands[u]
    BY <2>2, HeldMeans DEF Hands
  <2>4. \A u \in User : d \notin DOMAIN Dues[u]
    BY <2>2 DEF Dues, Due
  <2>5. QED
    BY <2>3, <2>4 DEF X!GivenOut
<1>7. Event \in DOMAIN barred /\ T \cap barred[Event] = {} /\ Event \notin DOMAIN barred'
  <2>1. Event \in UnderWay
    BY <1>1 DEF UnderWay
  <2>2. Event \notin UnderWay'
    BY EventAssumption DEF UnderWay
  <2>3. T \cap barred[Event] = {}
    BY <1>1, <1>2 DEF ExchangeInv, SpawnGuarded
  <2>4. QED
    BY <2>1, <2>2, <2>3 DEF ExchangeInv, Record
<1>8. g_npc' = g_npc /\ g_frozen_tags' = g_frozen_tags
  BY <1>3 DEF market_add
<1>9. Purses' = Purses /\ Hands' = Hands /\ Dues' = Dues
  BY EventsUnseen DEF Spawner
<1>10. X!Offer(d, T, p)
  BY <1>5, <1>6, <1>7, <1>8, <1>9, WantedSame DEF X!Offer
<1>11. QED
  BY <1>10 DEF X!Deal

\* Anonymous buyers take offers that are not frozen.
LEMMA ExpireRefines ==
    ASSUME TradeTypeOK, ExchangeInv, Record, SoleOffers, SoleOffers',
           NEW A \in SUBSET MarketIndex, AgeMarket(A)
    PROVE  X!Deal
<1>1. /\ A \subseteq {i \in DOMAIN g_market : ~ g_market[i].is_frozen}
      /\ g_market' = Vacate(g_market, A) /\ UNCHANGED <<g_npc, g_frozen_tags>>
  BY DEF AgeMarket, market_despawn_aged
<1>2. BoardLess(A) /\ A \subseteq DOMAIN g_market
  BY <1>1, VacateEffect DEF TradeTypeOK
<1>3. PICK S : S = {g_market[i].doc_id : i \in A}
  OBVIOUS
<1>4. ShownOffers' = X!Remove(ShownOffers, S)
  BY <1>2, <1>3, ShownLess
<1>5. ASSUME NEW d \in S
      PROVE  d \in DOMAIN ShownOffers /\ ShownOffers[d].tags \cap g_frozen_tags = {}
  <2>1. PICK i \in DOMAIN g_market : d = g_market[i].doc_id /\ ~ g_market[i].is_frozen
    BY <1>1, <1>3
  <2>2. g_market[i].tags \cap g_frozen_tags = {}
    BY <2>1 DEF ExchangeInv, FrozenFlagMatchesMask, Overlap
  <2>3. d \in DOMAIN ShownOffers /\ ShownOffers[d].tags = g_market[i].tags
    <3>1. d \in DOMAIN ShownOffers /\ ShownOffers[d] = OfferSeen(g_market[i])
      BY <2>1, OffersNow
    <3>2. QED
      BY <3>1 DEF OfferSeen
  <2>4. QED
    BY <2>2, <2>3
<1>6. Purses' = Purses /\ Hands' = Hands /\ Dues' = Dues
  <2>1. World
    BY DEF World, Traffic
  <2>2. QED
    BY <2>1, EventsUnseen
<1>7. X!Expire(S)
  BY <1>1, <1>4, <1>5, <1>6, WantedSame DEF X!Expire
<1>8. S \in SUBSET DOMAIN ShownOffers
  BY <1>5
<1>9. QED
  BY <1>7, <1>8 DEF X!Deal

LEMMA RequestRefines ==
    ASSUME TradeTypeOK, ExchangeInv, Record, SoleRequests',
           \/ \E A \in SUBSET NpcIndex : AgeNpcs(A)
           \/ \E T \in TagMask, b \in Bounty : NpcSpawn(T, b)
    PROVE  X!Deal \/ UNCHANGED X!goods
<1>1. /\ Purses' = Purses /\ Hands' = Hands /\ Dues' = Dues
      /\ g_market' = g_market /\ g_frozen_tags' = g_frozen_tags
  <2>1. World
    BY DEF World, Traffic
  <2>2. QED
    BY <2>1, EventsUnseen DEF AgeNpcs, NpcSpawn, npc_despawn_aged, npc_add, vars
<1>2. ShownOffers' = ShownOffers
  BY <1>1 DEF ShownOffers, OnBoard, SlotOf
<1>3. SoleRequests /\ TypeOK
  BY DEF ExchangeInv, TradeTypeOK
<1>4. ASSUME NEW A \in SUBSET NpcIndex, AgeNpcs(A)
      PROVE  X!Deal
  <2>1. A \subseteq DOMAIN g_npc /\ g_npc' = Vacate(g_npc, A)
    BY <1>4 DEF AgeNpcs, npc_despawn_aged
  <2>2. NpcLess(A)
    BY <2>1, NpcVacated
  <2>3. PICK S : S = {g_npc[i].npc_id : i \in A}
    OBVIOUS
  <2>4. OpenRequests' = X!Remove(OpenRequests, S)
    BY <1>3, <2>1, <2>2, <2>3, WantedLess
  <2>5. S \in SUBSET DOMAIN OpenRequests
    BY <1>3, <2>1, <2>3, RequestsNow
  <2>6. X!Lapse(S)
    BY <1>1, <1>2, <2>4 DEF X!Lapse
  <2>7. QED
    BY <2>5, <2>6 DEF X!Deal
<1>5. ASSUME NEW T \in TagMask, NEW b \in Bounty, NpcSpawn(T, b)
      PROVE  X!Deal \/ UNCHANGED X!goods
  <2>1. PICK n : n = g_npc_id_counter + 1
    OBVIOUS
  <2>2. npc_add(n, T, b) \/ g_npc' = g_npc
    BY <1>5, <2>1 DEF NpcSpawn, vars
  <2>3. CASE g_npc' = g_npc
    BY <1>1, <1>2, <2>3, WantedSame DEF X!goods
  <2>4. CASE npc_add(n, T, b)
    <3>1. /\ n \notin DOMAIN OpenRequests
          /\ OpenRequests' = X!Insert(OpenRequests, n, [tags |-> T, bounty |-> b])
      BY <1>3, <2>4, NpcAdded, WantedMore
    <3>2. n \in NpcId
      <4>1. g_npc_id_counter \in Nat /\ g_npc_id_counter < NPC_LIMIT /\ NPC_LIMIT \in Nat
        BY <1>5, TradeAssumption DEF NpcSpawn, TradeTypeOK
      <4>2. n \in 1 .. NPC_LIMIT
        BY <2>1, <4>1
      <4>3. QED
        BY <4>2, TradeAssumption
    <3>3. T \in SUBSET Tag
      BY DEF TagMask
    <3>4. X!Ask(n, T, b)
      BY <1>1, <1>2, <3>1 DEF X!Ask
    <3>5. QED
      BY <3>2, <3>3, <3>4 DEF X!Deal
  <2>5. QED
    BY <2>2, <2>3, <2>4
<1>6. QED
  BY <1>4, <1>5

LEMMA FrostRefines ==
    ASSUME TradeTypeOK, ExchangeInv, Record, SoleOffers, SoleOffers',
           NEW t \in Tag, Leak(t) \/ Recover(t)
    PROVE  X!Deal
<1>1. freeze_tags({t}) \/ unfreeze_tags({t})
  BY DEF Leak, Recover
<1>2. TypeOK' /\ BoardSame /\ g_npc' = g_npc
  BY <1>1, FrostEffect DEF TradeTypeOK, freeze_tags, unfreeze_tags
<1>3. Purses' = Purses /\ Hands' = Hands /\ Dues' = Dues
  <2>1. World
    BY DEF World
  <2>2. QED
    BY <2>1, EventsUnseen
<1>4. PICK T \in SUBSET Tag : g_frozen_tags' = T
  BY <1>2 DEF TypeOK
<1>5. X!SetFrozen(T)
  BY <1>2, <1>3, <1>4, ShownSame, WantedSame DEF X!SetFrozen
<1>6. QED
  BY <1>5 DEF X!Deal

\* The steps of the event thread and of the world around the players.
LEMMA EventsRefine ==
    ASSUME TradeTypeOK, CustodyInv, ExchangeInv, Record, SoleOffers, SoleOffers',
           SoleRequests', Spawner \/ World
    PROVE  X!Deal \/ UNCHANGED X!goods
<1>1. CASE UNCHANGED vars
  <2>1. g_market' = g_market /\ g_npc' = g_npc /\ g_frozen_tags' = g_frozen_tags
    BY <1>1 DEF vars
  <2>2. ShownOffers' = ShownOffers /\ OpenRequests' = OpenRequests
    BY <2>1, WantedSame DEF ShownOffers, OnBoard, SlotOf
  <2>3. QED
    BY <2>1, <2>2, EventsUnseen DEF X!goods
<1>2. CASE Spawner
  <2>1. CASE /\ SpawnAdd /\ market_add(ev.doc_id, ev.tags, ev.base_price)
             /\ ev' = [pc |-> "idle"]
    BY <2>1, OfferRefines
  <2>2. QED
    BY <1>1, <1>2, <2>1 DEF Spawner, SpawnWrite, SpawnAdd, RemoveFile
<1>3. CASE World
  <2>1. CASE \E T \in TagMask, p \in Price : SpawnChoose(T, p)
    BY <1>1, <2>1 DEF SpawnChoose
  <2>2. QED
    BY <1>3, <2>1, ExpireRefines, RequestRefines, FrostRefines DEF World, Traffic
<1>4. QED
  BY <1>2, <1>3

\* The record of what was frozen is the one that Exchange keeps.
LEMMA BarsHold ==
    ASSUME Record
    PROVE  X!Bars
<1>1. barred' = [p \in UnderWay' |-> IF p \in DOMAIN barred
                                     THEN barred[p] \cap g_frozen_tags' ELSE g_frozen_tags']
  BY DEF Record
<1>2. DOMAIN barred' = UnderWay'
  BY <1>1
<1>3. QED
  BY <1>1, <1>2 DEF X!Bars

LEMMA StepRefines ==
    ASSUME TradeTypeOK, TradeTypeOK', CustodyInv, ExchangeInv, SoleOffers, SoleOffers',
           SoleRequests', \A v \in User : Affords(v), [TradeNext /\ Record]_hvars
    PROVE  [X!Next]_(X!xvars)
<1>1. CASE TradeNext /\ Record
  <2>1. X!Deal \/ UNCHANGED X!goods
    <3>1. ASSUME NEW u \in User, Request(u) \/ Handler(u)
          PROVE  X!Deal \/ UNCHANGED X!goods
      BY <1>1, <3>1, HandlerRefines
    <3>2. CASE Spawner \/ World
      BY <1>1, <3>2, EventsRefine
    <3>3. CASE (\E u \in User : RaidBurn(u)) \/ RaidPurge
      BY <1>1, <3>3, RaidRefines
    <3>4. QED
      BY <1>1, <3>1, <3>2, <3>3 DEF TradeNext
  <2>2. QED
    BY <1>1, <2>1, BarsHold DEF X!Next
<1>2. CASE UNCHANGED hvars
  <2>1. UNCHANGED <<g_market, g_npc, g_frozen_tags, users_dat, sandbox, th, barred, raided>>
    BY <1>2 DEF hvars, tvars, vars, store
  <2>2. ShownOffers' = ShownOffers /\ OpenRequests' = OpenRequests
    BY <2>1, WantedSame DEF ShownOffers, OnBoard, SlotOf
  <2>3. Purses' = Purses /\ Hands' = Hands
    BY <2>1, LocalIdle, NobodySeen
  <2>4. ThreadsSame
    BY <2>1 DEF ThreadsSame, ThreadSame, Passes
  <2>5. Dues' = Dues
    BY <2>4, DuesSame
  <2>6. QED
    BY <2>1, <2>2, <2>3, <2>5 DEF X!xvars, X!goods
<1>3. QED
  BY <1>1, <1>2

LEMMA StartRefines ==
    ASSUME HistoryInit
    PROVE  X!Start(INITIAL_MONEY)
<1>1. ASSUME NEW u \in User
      PROVE  Purse(u) = INITIAL_MONEY /\ DOMAIN Holds(u) = {} /\ DOMAIN Due(u) = {}
  <2>1. th[u].pc = "ready" /\ users_dat[u] = INITIAL_MONEY /\ DOMAIN sandbox[u] = {}
    BY DEF HistoryInit, TradeInit
  <2>2. Purse(u) = INITIAL_MONEY /\ DOMAIN Holds(u) = {}
    BY <2>1, SeenNow DEF MovePc
  <2>3. DOMAIN Due(u) = {}
    BY <2>1 DEF Due, InPassage
  <2>4. QED
    BY <2>2, <2>3
<1>2. /\ Purses = [u \in User |-> INITIAL_MONEY]
      /\ DOMAIN Hands = User /\ \A u \in User : DOMAIN Hands[u] = {}
      /\ \A u \in User : DOMAIN Dues[u] = {}
  <2>1. User \ raided = User
    BY DEF HistoryInit
  <2>2. QED
    BY <1>1, <2>1 DEF Purses, Hands, Dues
<1>3. g_frozen_tags = {} /\ DOMAIN barred = {}
  BY DEF HistoryInit, TradeInit
<1>4. QED
  BY <1>2, <1>3 DEF X!Start

\* For any number of players, documents, requests and slots, however many raids and
\* failing renames come between, the threads, files and records behave like atomic
\* trades: a purchase is what happens at market_take, for the price shown, with the money
\* and the room there are, and with no tag of the document frozen; a sale is what happens
\* at npc_take, for the request the tags were compared with, and with no tag frozen ever
\* since it began; a player who was not raided has the money and the documents that these
\* trades add up to.  The claim is about runs in which the spawner's counters have not
\* reached the ids of the seeds: 46 documents and 101 requests.
THEOREM ExchangeImplemented ==
    ASSUME SeedsApart, NpcsApart
    PROVE  HistorySpec => ImplementsExchange
<1> DEFINE Burns == \A v \in User : BurnInv(v)
<1>1. HistoryInit => TradeInit
  BY DEF HistoryInit
<1>2. [TradeNext /\ Record]_hvars => [TradeNext]_tvars
  BY DEF hvars
<1>3. HistoryInit => Burns /\ ExchangeInv
  BY BurnStart, ExchangeStart DEF HistoryInit
<1>4. TradeTypeOK /\ CustodyInv /\ Burns /\ ExchangeInv /\ [TradeNext /\ Record]_hvars
         => Burns' /\ ExchangeInv'
  <2> SUFFICES ASSUME TradeTypeOK, CustodyInv, Burns, ExchangeInv,
                      [TradeNext /\ Record]_hvars
               PROVE  Burns' /\ ExchangeInv'
    OBVIOUS
  <2>1. Burns'
    BY <1>2, BurnStep
  <2>2. \A v \in User : Affords(v)
    BY DEF BurnInv
  <2> HIDE DEF Burns
  <2>3. ExchangeInv'
    BY <2>2, ExchangeStep, ExchangeStutter
  <2>4. QED
    BY <2>1, <2>3
<1>5. TradeTypeOK /\ CustodyInv => SoleOffers
  BY SoleOffersHolds
<1>6. ExchangeInv => SoleRequests
  BY DEF ExchangeInv
<1>7. TradeTypeOK /\ TradeTypeOK' /\ CustodyInv /\ Burns /\ ExchangeInv /\ SoleOffers
         /\ SoleOffers' /\ SoleRequests' /\ [TradeNext /\ Record]_hvars
         => [X!Next]_(X!xvars)
  <2> SUFFICES ASSUME TradeTypeOK, TradeTypeOK', CustodyInv, Burns, ExchangeInv, SoleOffers,
                      SoleOffers', SoleRequests', [TradeNext /\ Record]_hvars
               PROVE  [X!Next]_(X!xvars)
    OBVIOUS
  <2>1. \A v \in User : Affords(v)
    BY DEF BurnInv
  <2> HIDE DEF Burns
  <2>2. QED
    BY <2>1, StepRefines
<1>8. HistoryInit => X!Start(INITIAL_MONEY)
  BY StartRefines
<1> HIDE DEF Burns
<1>9. HistorySpec => TradeSpec
  BY <1>1, <1>2, PTL DEF HistorySpec, TradeSpec
<1>10. QED
  BY <1>3, <1>4, <1>5, <1>6, <1>7, <1>8, <1>9, CustodyInvariant, PTL
     DEF HistorySpec, ImplementsExchange, X!StepsOnly
=============================================================================
