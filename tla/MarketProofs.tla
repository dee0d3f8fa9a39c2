---------------------------- MODULE MarketProofs ----------------------------
(***************************************************************************)
(* For boards of any size and any sets of documents, tags and requests:    *)
(* the types, the agreement of the cached frozen flags with the mask, that *)
(* a frozen offer stays, and that Market implements Bazaar.                *)
(***************************************************************************)
EXTENDS Market, TLAPS

-----------------------------------------------------------------------------
\* Lemmas on tables of slots.

\* A function is a table exactly when its domain holds indices and its values
\* slots.
LEMMA TableElim ==
    ASSUME NEW Index, NEW Slot, NEW t \in Table(Index, Slot)
    PROVE  /\ t = [i \in DOMAIN t |-> t[i]]
           /\ DOMAIN t \subseteq Index
           /\ \A i \in DOMAIN t : t[i] \in Slot
<1>1. PICK S \in SUBSET Index : t \in [S -> Slot]
  BY DEF Table
<1>2. QED
  BY <1>1

\* The converse of TableElim.
LEMMA TableIntro ==
    ASSUME NEW Index, NEW Slot, NEW t,
           t = [i \in DOMAIN t |-> t[i]],
           DOMAIN t \subseteq Index,
           \A i \in DOMAIN t : t[i] \in Slot
    PROVE  t \in Table(Index, Slot)
<1>1. t \in [DOMAIN t -> Slot]
  OBVIOUS
<1>2. QED
  BY <1>1 DEF Table

\* Filling a slot (market_add, npc_add) keeps a table a table.
LEMMA FillType ==
    ASSUME NEW Index, NEW Slot, NEW t \in Table(Index, Slot),
           NEW i \in Index, NEW slot \in Slot
    PROVE  Fill(t, i, slot) \in Table(Index, Slot)
<1>1. DOMAIN t \subseteq Index /\ \A j \in DOMAIN t : t[j] \in Slot
  BY TableElim
<1>2. /\ DOMAIN Fill(t, i, slot) = DOMAIN t \cup {i}
      /\ \A j \in DOMAIN Fill(t, i, slot) : Fill(t, i, slot)[j] \in Slot
      /\ Fill(t, i, slot) = [j \in DOMAIN Fill(t, i, slot) |-> Fill(t, i, slot)[j]]
  BY <1>1 DEF Fill
<1>3. QED
  BY <1>1, <1>2, TableIntro

\* Vacating slots (taking, aging) keeps a table a table and the other slots.
LEMMA VacateType ==
    ASSUME NEW Index, NEW Slot, NEW t \in Table(Index, Slot), NEW S
    PROVE  /\ Vacate(t, S) \in Table(Index, Slot)
           /\ DOMAIN Vacate(t, S) = DOMAIN t \ S
           /\ \A i \in DOMAIN t \ S : Vacate(t, S)[i] = t[i]
<1>1. DOMAIN t \subseteq Index /\ \A j \in DOMAIN t : t[j] \in Slot
  BY TableElim
<1>2. /\ DOMAIN Vacate(t, S) = DOMAIN t \ S
      /\ \A i \in DOMAIN t \ S : Vacate(t, S)[i] = t[i]
      /\ Vacate(t, S) = [j \in DOMAIN Vacate(t, S) |-> Vacate(t, S)[j]]
  BY DEF Vacate, Restrict
<1>3. QED
  BY <1>1, <1>2, TableIntro

\* The table with no active slot.
LEMMA EmptyType ==
    ASSUME NEW Index, NEW Slot
    PROVE  /\ [i \in {} |-> {}] \in Table(Index, Slot)
           /\ DOMAIN [i \in {} |-> {}] = {}
BY DEF Table

\* A first-fit scan of an index range stops at an index of that range.
LEMMA FirstFreeInRange ==
    ASSUME NEW table, NEW n, NEW i \in FirstFree(table, n)
    PROVE  i \in 0 .. (n - 1) /\ i \notin DOMAIN table
BY DEF FirstFree

-----------------------------------------------------------------------------
\* Type correctness.

\* Initially and after every call of market.c the three variables have their
\* types.
THEOREM TypeCorrect == Spec => []TypeOK
<1>1. Init => TypeOK
  BY EmptyType DEF Init, TypeOK
<1>2. TypeOK /\ [Next]_vars => TypeOK'
  <2> SUFFICES ASSUME TypeOK, [Next]_vars
               PROVE  TypeOK'
    OBVIOUS
  <2> USE DEF TypeOK
  <2>1. CASE market_init_board
    BY <2>1, EmptyType DEF market_init_board
  <2>2. CASE market_init_npc
    BY <2>2, EmptyType DEF market_init_npc
  <2>3. ASSUME NEW d \in DocId, NEW T \in TagMask, NEW p \in Price,
               market_add(d, T, p)
        PROVE  TypeOK'
    <3>1. PICK i \in FirstFree(g_market, MAX_MARKET_SLOTS) :
             g_market' = Fill(g_market, i,
                              [doc_id |-> d, tags |-> T, base_price |-> p,
                               is_frozen |-> is_tag_frozen(T)])
      BY <2>3 DEF market_add
    <3>2. [doc_id |-> d, tags |-> T, base_price |-> p,
           is_frozen |-> is_tag_frozen(T)] \in MarketSlot
      BY DEF MarketSlot, TagMask, is_tag_frozen, Overlap
    <3>3. g_market' \in Table(MarketIndex, MarketSlot)
      BY <3>1, <3>2, FirstFreeInRange, FillType DEF MarketIndex
    <3>4. QED
      BY <2>3, <3>3 DEF market_add
  <2>4. ASSUME NEW d \in DocId, market_take(d)
        PROVE  TypeOK'
    <3>1. PICK i \in market_find(d) : g_market' = Vacate(g_market, {i})
      BY <2>4 DEF market_take
    <3>2. g_market' \in Table(MarketIndex, MarketSlot)
      BY <3>1, VacateType
    <3>3. QED
      BY <2>4, <3>2 DEF market_take
  <2>5. ASSUME NEW A \in SUBSET MarketIndex, market_despawn_aged(A)
        PROVE  TypeOK'
    BY <2>5, VacateType DEF market_despawn_aged
  <2>6. ASSUME NEW n \in NpcId, NEW T \in TagMask, NEW b \in Bounty,
               npc_add(n, T, b)
        PROVE  TypeOK'
    <3>1. PICK i \in FirstFree(g_npc, MAX_NPC_SLOTS) :
             g_npc' = Fill(g_npc, i, [npc_id |-> n, required_tags |-> T,
                                      bounty |-> b])
      BY <2>6 DEF npc_add
    <3>2. [npc_id |-> n, required_tags |-> T, bounty |-> b] \in NPCSlot
      BY DEF NPCSlot, TagMask
    <3>3. g_npc' \in Table(NpcIndex, NPCSlot)
      BY <3>1, <3>2, FirstFreeInRange, FillType DEF NpcIndex
    <3>4. QED
      BY <2>6, <3>3 DEF npc_add
  <2>7. ASSUME NEW n \in NpcId, npc_take(n)
        PROVE  TypeOK'
    <3>1. PICK i \in npc_find(n) : g_npc' = Vacate(g_npc, {i})
      BY <2>7 DEF npc_take
    <3>2. g_npc' \in Table(NpcIndex, NPCSlot)
      BY <3>1, VacateType
    <3>3. QED
      BY <2>7, <3>2 DEF npc_take
  <2>8. ASSUME NEW A \in SUBSET NpcIndex, npc_despawn_aged(A)
        PROVE  TypeOK'
    BY <2>8, VacateType DEF npc_despawn_aged
  <2>9. ASSUME NEW g \in [DOMAIN g_market -> BOOLEAN],
               g_market' = [i \in DOMAIN g_market |->
                               [g_market[i] EXCEPT !.is_frozen = g[i]]]
        PROVE  g_market' \in Table(MarketIndex, MarketSlot)
    <3>1. \A i \in DOMAIN g_market : g_market[i] \in MarketSlot
      BY TableElim
    <3>2. \A i \in DOMAIN g_market : g_market'[i] \in MarketSlot
      BY <2>9, <3>1 DEF MarketSlot
    <3>3. DOMAIN g_market' = DOMAIN g_market
      BY <2>9
    <3>4. g_market' = [i \in DOMAIN g_market' |-> g_market'[i]]
      BY <2>9
    <3>5. DOMAIN g_market \subseteq MarketIndex
      BY TableElim
    <3>6. QED
      BY <3>2, <3>3, <3>4, <3>5, TableIntro
  <2>10. ASSUME NEW T \in TagMask, freeze_tags(T)
         PROVE  TypeOK'
    <3>1. \A i \in DOMAIN g_market : g_market[i] \in MarketSlot
      BY TableElim
    <3> DEFINE g == [i \in DOMAIN g_market |->
                        g_market[i].is_frozen \/ Overlap(g_market[i].tags, T)]
    <3>2. g \in [DOMAIN g_market -> BOOLEAN]
      BY <3>1 DEF MarketSlot, Overlap
    <3>3. g_market' = [i \in DOMAIN g_market |->
                          [g_market[i] EXCEPT !.is_frozen = g[i]]]
      BY <2>10 DEF freeze_tags
    <3>4. g_market' \in Table(MarketIndex, MarketSlot)
      BY <3>2, <3>3, <2>9
    <3>5. QED
      BY <2>10, <3>4 DEF freeze_tags, TagMask
  <2>11. ASSUME NEW T \in TagMask, unfreeze_tags(T)
         PROVE  TypeOK'
    <3>1. \A i \in DOMAIN g_market : g_market[i] \in MarketSlot
      BY TableElim
    <3> DEFINE g == [i \in DOMAIN g_market |->
                        g_market[i].is_frozen
                           /\ ~ (/\ Overlap(g_market[i].tags, T)
                                 /\ ~ Overlap(g_market[i].tags, g_frozen_tags'))]
    <3>2. g \in [DOMAIN g_market -> BOOLEAN]
      BY <3>1 DEF MarketSlot, Overlap
    <3>3. g_market' = [i \in DOMAIN g_market |->
                          [g_market[i] EXCEPT !.is_frozen = g[i]]]
      BY <2>11 DEF unfreeze_tags
    <3>4. g_market' \in Table(MarketIndex, MarketSlot)
      BY <3>2, <3>3, <2>9
    <3>5. QED
      BY <2>11, <3>4 DEF unfreeze_tags
  <2>12. CASE UNCHANGED vars
    BY <2>12 DEF vars
  <2>13. QED
    BY <2>1, <2>2, <2>3, <2>4, <2>5, <2>6, <2>7, <2>8, <2>10, <2>11, <2>12
       DEF Next
<1>3. QED
  BY <1>1, <1>2, PTL DEF Spec

-----------------------------------------------------------------------------
\* What a step does to an offer: the facts the frozen-offer theorems share.

\* The invariant of the board: types, and flags that agree with the mask.
BoardInv == TypeOK /\ FrozenFlagMatchesMask

\* A call that vacates unfrozen slots leaves every other slot as it was.
LEMMA VacateStep ==
    ASSUME TypeOK, NEW S, g_market' = Vacate(g_market, S)
    PROVE  /\ DOMAIN g_market' = DOMAIN g_market \ S
           /\ \A i \in DOMAIN g_market' : g_market'[i] = g_market[i]
<1>1. g_market \in Table(MarketIndex, MarketSlot)
  BY DEF TypeOK
<1>2. /\ DOMAIN Vacate(g_market, S) = DOMAIN g_market \ S
      /\ \A i \in DOMAIN g_market \ S : Vacate(g_market, S)[i] = g_market[i]
  BY <1>1, VacateType
<1>3. QED
  BY <1>2

\* Listing an offer leaves the others alone and flags it as the mask says.
LEMMA AddStep ==
    ASSUME TypeOK, NEW d \in DocId, NEW T \in TagMask, NEW p \in Price,
           market_add(d, T, p)
    PROVE  \E i \in MarketIndex \ DOMAIN g_market :
              /\ DOMAIN g_market' = DOMAIN g_market \cup {i}
              /\ \A j \in DOMAIN g_market : g_market'[j] = g_market[j]
              /\ g_market'[i] = [doc_id |-> d, tags |-> T, base_price |-> p,
                                 is_frozen |-> is_tag_frozen(T)]
              /\ g_market' = Fill(g_market, i, g_market'[i])
<1>1. PICK i \in FirstFree(g_market, MAX_MARKET_SLOTS) :
         g_market' = Fill(g_market, i,
                          [doc_id |-> d, tags |-> T, base_price |-> p,
                           is_frozen |-> is_tag_frozen(T)])
  BY DEF market_add
<1>2. i \in MarketIndex \ DOMAIN g_market
  BY FirstFreeInRange DEF MarketIndex
<1>3. /\ DOMAIN g_market' = DOMAIN g_market \cup {i}
      /\ \A j \in DOMAIN g_market : g_market'[j] = g_market[j]
      /\ g_market'[i] = [doc_id |-> d, tags |-> T, base_price |-> p,
                         is_frozen |-> is_tag_frozen(T)]
  BY <1>1, <1>2 DEF Fill
<1>4. g_market' = Fill(g_market, i, g_market'[i])
  BY <1>1, <1>3
<1>5. QED
  BY <1>2, <1>3, <1>4

\* A freeze or a thaw rewrites the flags and nothing else, and a flag that
\* agreed with the mask agrees with the new mask.
LEMMA FreezeStep ==
    ASSUME BoardInv, NEW T \in TagMask, freeze_tags(T) \/ unfreeze_tags(T)
    PROVE  /\ DOMAIN g_market' = DOMAIN g_market
           /\ \A i \in DOMAIN g_market :
                 /\ g_market'[i].doc_id = g_market[i].doc_id
                 /\ g_market'[i].tags = g_market[i].tags
                 /\ g_market'[i].base_price = g_market[i].base_price
                 /\ g_market'[i].is_frozen
                       <=> Overlap(g_market'[i].tags, g_frozen_tags')
<1>1. \A i \in DOMAIN g_market : g_market[i] \in MarketSlot
  BY TableElim DEF BoardInv, TypeOK
<1>2. CASE freeze_tags(T)
  <2>1. DOMAIN g_market' = DOMAIN g_market /\ g_frozen_tags' = g_frozen_tags \cup T
    BY <1>2 DEF freeze_tags
  <2> SUFFICES ASSUME NEW i \in DOMAIN g_market
               PROVE  /\ g_market'[i].doc_id = g_market[i].doc_id
                      /\ g_market'[i].tags = g_market[i].tags
                      /\ g_market'[i].base_price = g_market[i].base_price
                      /\ g_market'[i].is_frozen
                            <=> Overlap(g_market'[i].tags, g_frozen_tags')
    BY <2>1
  <2>2. g_market'[i] = [g_market[i] EXCEPT !.is_frozen =
                           @ \/ Overlap(g_market[i].tags, T)]
    BY <1>2 DEF freeze_tags
  <2>3. /\ g_market'[i].doc_id = g_market[i].doc_id
        /\ g_market'[i].tags = g_market[i].tags
        /\ g_market'[i].base_price = g_market[i].base_price
        /\ g_market'[i].is_frozen
              = (g_market[i].is_frozen \/ Overlap(g_market[i].tags, T))
    BY <1>1, <2>2 DEF MarketSlot
  <2>4. Overlap(g_market[i].tags, g_frozen_tags \cup T)
           <=> Overlap(g_market[i].tags, g_frozen_tags) \/ Overlap(g_market[i].tags, T)
    BY DEF Overlap
  <2>5. g_market[i].is_frozen <=> Overlap(g_market[i].tags, g_frozen_tags)
    BY DEF BoardInv, FrozenFlagMatchesMask
  <2>6. QED
    BY <2>1, <2>3, <2>4, <2>5
<1>3. CASE unfreeze_tags(T)
  <2>1. DOMAIN g_market' = DOMAIN g_market /\ g_frozen_tags' = g_frozen_tags \ T
    BY <1>3 DEF unfreeze_tags
  <2> SUFFICES ASSUME NEW i \in DOMAIN g_market
               PROVE  /\ g_market'[i].doc_id = g_market[i].doc_id
                      /\ g_market'[i].tags = g_market[i].tags
                      /\ g_market'[i].base_price = g_market[i].base_price
                      /\ g_market'[i].is_frozen
                            <=> Overlap(g_market'[i].tags, g_frozen_tags')
    BY <2>1
  <2> DEFINE thaws == /\ Overlap(g_market[i].tags, T)
                      /\ ~ Overlap(g_market[i].tags, g_frozen_tags')
  <2>2. g_market'[i] = [g_market[i] EXCEPT !.is_frozen = @ /\ ~ thaws]
    BY <1>3 DEF unfreeze_tags
  <2>3. /\ g_market'[i].doc_id = g_market[i].doc_id
        /\ g_market'[i].tags = g_market[i].tags
        /\ g_market'[i].base_price = g_market[i].base_price
        /\ g_market'[i].is_frozen = (g_market[i].is_frozen /\ ~ thaws)
    BY <1>1, <2>2 DEF MarketSlot
  <2>4. g_market[i].is_frozen <=> Overlap(g_market[i].tags, g_frozen_tags)
    BY DEF BoardInv, FrozenFlagMatchesMask
  <2>5. Overlap(g_market[i].tags, g_frozen_tags) /\ ~ thaws
           <=> Overlap(g_market[i].tags, g_frozen_tags')
    BY <2>1 DEF Overlap
  <2>6. QED
    BY <2>3, <2>4, <2>5
<1>4. QED
  BY <1>2, <1>3

-----------------------------------------------------------------------------
\* The cached flag agrees with the mask.

\* At all times the flag market_take tests is the mask's verdict on the tags.
THEOREM FlagsAgree == Spec => []FrozenFlagMatchesMask
<1>1. Init => FrozenFlagMatchesMask
  BY EmptyType DEF Init, FrozenFlagMatchesMask
<1>2. BoardInv /\ [Next]_vars => FrozenFlagMatchesMask'
  <2> SUFFICES ASSUME BoardInv, [Next]_vars
               PROVE  FrozenFlagMatchesMask'
    OBVIOUS
  <2>0. TypeOK /\ FrozenFlagMatchesMask
    BY DEF BoardInv
  <2>1. CASE market_init_board
    BY <2>1, EmptyType DEF market_init_board, FrozenFlagMatchesMask
  <2>2. ASSUME UNCHANGED <<g_market, g_frozen_tags>>
        PROVE  FrozenFlagMatchesMask'
    BY <2>0, <2>2 DEF FrozenFlagMatchesMask
  <2>3. ASSUME NEW d \in DocId, NEW T \in TagMask, NEW p \in Price,
               market_add(d, T, p)
        PROVE  FrozenFlagMatchesMask'
    <3>1. PICK i \in MarketIndex \ DOMAIN g_market :
              /\ DOMAIN g_market' = DOMAIN g_market \cup {i}
              /\ \A j \in DOMAIN g_market : g_market'[j] = g_market[j]
              /\ g_market'[i] = [doc_id |-> d, tags |-> T, base_price |-> p,
                                 is_frozen |-> is_tag_frozen(T)]
      BY <2>0, <2>3, AddStep
    <3>2. g_frozen_tags' = g_frozen_tags
      BY <2>3 DEF market_add
    <3>3. g_market'[i].is_frozen <=> Overlap(g_market'[i].tags, g_frozen_tags')
      BY <3>1, <3>2 DEF is_tag_frozen
    <3>4. QED
      BY <2>0, <3>1, <3>2, <3>3 DEF FrozenFlagMatchesMask
  <2>4. ASSUME NEW S, g_market' = Vacate(g_market, S), UNCHANGED g_frozen_tags
        PROVE  FrozenFlagMatchesMask'
    <3>1. /\ DOMAIN g_market' = DOMAIN g_market \ S
          /\ \A i \in DOMAIN g_market' : g_market'[i] = g_market[i]
      BY <2>0, <2>4, VacateStep DEF Kept
    <3>2. QED
      BY <2>0, <2>4, <3>1 DEF FrozenFlagMatchesMask
  <2>5. ASSUME NEW d \in DocId, market_take(d)
        PROVE  FrozenFlagMatchesMask'
    <3>1. PICK i \in market_find(d) : g_market' = Vacate(g_market, {i})
      BY <2>5 DEF market_take
    <3>2. QED
      BY <2>4, <2>5, <3>1 DEF market_take
  <2>6. ASSUME NEW A \in SUBSET MarketIndex, market_despawn_aged(A)
        PROVE  FrozenFlagMatchesMask'
    BY <2>4, <2>6 DEF market_despawn_aged
  <2>7. ASSUME NEW T \in TagMask, freeze_tags(T) \/ unfreeze_tags(T)
        PROVE  FrozenFlagMatchesMask'
    BY <2>7, FreezeStep DEF FrozenFlagMatchesMask
  <2>8. QED
    BY <2>1, <2>2, <2>3, <2>5, <2>6, <2>7
       DEF Next, vars, market_init_npc, npc_add, npc_take, npc_despawn_aged
<1>3. QED
  BY <1>1, <1>2, TypeCorrect, PTL DEF Spec, BoardInv

-----------------------------------------------------------------------------
\* A frozen offer stays, and the board implements the Bazaar.

\* While one of its tags is frozen an offer is neither sold nor aged away nor
\* changed, unless the whole board is wiped.
THEOREM FrozenOffersStay == Spec => FrozenOfferStays
<1>1. BoardInv /\ [Next]_vars => FrozenOffersKept
  <2> SUFFICES ASSUME BoardInv, [Next]_vars, NEW i \in DOMAIN g_market,
                      Overlap(g_market[i].tags, g_frozen_tags)
               PROVE  BoardWiped \/ Kept(i)
    BY DEF FrozenOffersKept
  <2>0. TypeOK /\ g_market[i].is_frozen
    BY DEF BoardInv, FrozenFlagMatchesMask
  <2>1. CASE market_init_board
    BY <2>1, EmptyType DEF market_init_board, BoardWiped
  <2>2. CASE UNCHANGED g_market
    BY <2>2 DEF Kept
  <2>3. ASSUME NEW d \in DocId, NEW T \in TagMask, NEW p \in Price,
               market_add(d, T, p)
        PROVE  Kept(i)
    BY <2>0, <2>3, AddStep DEF Kept
  <2>4. ASSUME NEW S, g_market' = Vacate(g_market, S), i \notin S
        PROVE  Kept(i)
    BY <2>0, <2>4, VacateStep DEF Kept
  <2>5. ASSUME NEW d \in DocId, market_take(d)
        PROVE  Kept(i)
    <3>1. PICK j \in market_find(d) : /\ ~ g_market[j].is_frozen
                                      /\ g_market' = Vacate(g_market, {j})
      BY <2>5 DEF market_take
    <3>2. i \notin {j}
      BY <2>0, <3>1
    <3>3. QED
      BY <2>4, <3>1, <3>2
  <2>6. ASSUME NEW A \in SUBSET MarketIndex, market_despawn_aged(A)
        PROVE  Kept(i)
    <3>1. i \notin A
      BY <2>0, <2>6 DEF market_despawn_aged
    <3>2. QED
      BY <2>4, <2>6, <3>1 DEF market_despawn_aged
  <2>7. ASSUME NEW T \in TagMask, freeze_tags(T) \/ unfreeze_tags(T)
        PROVE  Kept(i)
    BY <2>7, FreezeStep DEF Kept
  <2>8. QED
    BY <2>1, <2>2, <2>3, <2>5, <2>6, <2>7
       DEF Next, vars, market_init_npc, npc_add, npc_take, npc_despawn_aged
<1>2. QED
  BY <1>1, TypeCorrect, FlagsAgree, PTL DEF Spec, BoardInv, FrozenOfferStays

\* Every call of market.c is a step of the Bazaar or invisible in it.
THEOREM BazaarImplemented == Spec => ImplementsBazaar
<1> DEFINE shown == [i \in DOMAIN g_market |-> Shown(g_market[i])]
<1>1. Init => B!Init
  <2> SUFFICES ASSUME Init PROVE B!Init
    OBVIOUS
  <2>1. shown = [p \in {} |-> {}]
    BY EmptyType DEF Init
  <2>2. QED
    BY <2>1 DEF Init, B!Init
<1>2. BoardInv /\ [Next]_vars => [B!Next]_(B!bvars)
  <2> SUFFICES ASSUME BoardInv, [Next]_vars
               PROVE  [B!Next]_(B!bvars)
    OBVIOUS
  <2>0. /\ TypeOK
        /\ \A i \in DOMAIN g_market : g_market[i] \in MarketSlot
    BY TableElim DEF BoardInv, TypeOK
  <2>1. CASE market_init_board
    <3>1. shown' = [p \in {} |-> {}]
      BY <2>1, EmptyType DEF market_init_board
    <3>2. B!Wipe
      BY <2>1, <3>1 DEF market_init_board, B!Wipe
    <3>3. QED
      BY <3>2 DEF B!Next
  <2>2. ASSUME NEW S \in SUBSET NpcIndex, g_npc' = Vacate(g_npc, S),
               UNCHANGED <<g_market, g_frozen_tags>>
        PROVE  B!Next
    <3>1. shown' = shown
      BY <2>2
    <3>2. B!Withdraw(S)
      BY <2>2, <3>1 DEF B!Withdraw, B!Restrict, Vacate, Restrict
    <3>3. QED
      BY <3>2 DEF B!Next
  <2>3. CASE market_init_npc
    <3>1. g_npc' = Vacate(g_npc, NpcIndex)
      BY <2>0, <2>3, TableElim, VacateType, EmptyType
         DEF TypeOK, market_init_npc, Vacate, Restrict
    <3>2. QED
      BY <2>2, <2>3, <3>1 DEF market_init_npc
  <2>4. ASSUME NEW d \in DocId, NEW T \in TagMask, NEW p \in Price,
               market_add(d, T, p)
        PROVE  B!Next
    <3>1. PICK i \in MarketIndex \ DOMAIN g_market :
              /\ DOMAIN g_market' = DOMAIN g_market \cup {i}
              /\ \A j \in DOMAIN g_market : g_market'[j] = g_market[j]
              /\ g_market'[i] = [doc_id |-> d, tags |-> T, base_price |-> p,
                                 is_frozen |-> is_tag_frozen(T)]
      BY <2>0, <2>4, AddStep
    <3> DEFINE o == [doc_id |-> d, tags |-> T, base_price |-> p]
    <3>2. shown' = [q \in DOMAIN shown \cup {i} |-> IF q = i THEN o ELSE shown[q]]
      BY <3>1 DEF Shown
    <3>3. /\ o \in [doc_id : DocId, tags : SUBSET Tag, base_price : Price]
          /\ i \notin DOMAIN shown
      BY <3>1 DEF TagMask
    <3>4. B!Show(i, o)
      BY <2>4, <3>2, <3>3 DEF market_add, B!Show
    <3>5. QED
      BY <3>3, <3>4 DEF B!Next
  <2>5. ASSUME NEW S \in SUBSET MarketIndex, g_market' = Vacate(g_market, S),
               UNCHANGED <<g_npc, g_frozen_tags>>,
               \A i \in S : i \in DOMAIN g_market /\ ~ g_market[i].is_frozen
        PROVE  B!Next
    <3>1. /\ DOMAIN g_market' = DOMAIN g_market \ S
          /\ \A i \in DOMAIN g_market' : g_market'[i] = g_market[i]
      BY <2>0, <2>5, VacateStep
    <3>2. S \subseteq B!Tradable
      BY <2>5 DEF B!Tradable, Shown, BoardInv, FrozenFlagMatchesMask, Overlap
    <3>3. shown' = Restrict(shown, DOMAIN shown \ S)
      BY <3>1 DEF Restrict
    <3>4. B!Leave(S)
      BY <2>5, <3>2, <3>3 DEF B!Leave, B!Restrict, Restrict
    <3>5. QED
      BY <3>4 DEF B!Next
  <2>6. ASSUME NEW d \in DocId, market_take(d)
        PROVE  B!Next
    <3>1. PICK i \in market_find(d) : /\ ~ g_market[i].is_frozen
                                      /\ g_market' = Vacate(g_market, {i})
      BY <2>6 DEF market_take
    <3>2. i \in DOMAIN g_market /\ i \in MarketIndex
      BY <2>0, <3>1, TableElim DEF market_find, FirstOf, SlotsOf, TypeOK
    <3>3. QED
      BY <2>5, <2>6, <3>1, <3>2 DEF market_take
  <2>7. ASSUME NEW A \in SUBSET MarketIndex, market_despawn_aged(A)
        PROVE  B!Next
    BY <2>5, <2>7 DEF market_despawn_aged
  <2>8. ASSUME NEW n \in NpcId, NEW T \in TagMask, NEW b \in Bounty,
               npc_add(n, T, b)
        PROVE  B!Next
    <3> DEFINE r == [npc_id |-> n, required_tags |-> T, bounty |-> b]
    <3>1. PICK i \in FirstFree(g_npc, MAX_NPC_SLOTS) : g_npc' = Fill(g_npc, i, r)
      BY <2>8 DEF npc_add
    <3>2. i \in NpcIndex \ DOMAIN g_npc /\ r \in NPCSlot
      BY <3>1, FirstFreeInRange DEF NpcIndex, NPCSlot, TagMask
    <3>3. B!Post(i, r)
      BY <2>8, <3>1, <3>2 DEF npc_add, B!Post, Fill
    <3>4. QED
      BY <3>2, <3>3 DEF B!Next
  <2>9. ASSUME NEW n \in NpcId, npc_take(n)
        PROVE  B!Next
    <3>1. PICK i \in npc_find(n) : g_npc' = Vacate(g_npc, {i})
      BY <2>9 DEF npc_take
    <3>2. i \in NpcIndex
      BY <2>0, <3>1, TableElim DEF npc_find, FirstOf, NpcSlotsOf, TypeOK
    <3>3. QED
      BY <2>2, <2>9, <3>1, <3>2 DEF npc_take
  <2>10. ASSUME NEW A \in SUBSET NpcIndex, npc_despawn_aged(A)
         PROVE  B!Next
    BY <2>2, <2>10 DEF npc_despawn_aged
  <2>11. ASSUME NEW T \in TagMask, freeze_tags(T) \/ unfreeze_tags(T)
         PROVE  B!Next
    <3>1. shown' = shown
      BY <2>11, FreezeStep DEF Shown
    <3>2. g_frozen_tags' \in SUBSET Tag /\ UNCHANGED g_npc
      BY <2>0, <2>11 DEF freeze_tags, unfreeze_tags, TypeOK, TagMask
    <3>3. B!SetFrozen(g_frozen_tags')
      BY <3>1, <3>2 DEF B!SetFrozen
    <3>4. QED
      BY <3>2, <3>3 DEF B!Next
  <2>12. CASE UNCHANGED vars
    BY <2>12 DEF vars, B!bvars
  <2>13. QED
    BY <2>1, <2>3, <2>4, <2>6, <2>7, <2>8, <2>9, <2>10, <2>11, <2>12 DEF Next
<1>3. QED
  BY <1>1, <1>2, TypeCorrect, FlagsAgree, PTL
     DEF Spec, BoardInv, ImplementsBazaar, B!Spec
=============================================================================
