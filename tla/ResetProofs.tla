---------------------------- MODULE ResetProofs -----------------------------
(***************************************************************************)
(* For any number of players, documents, slots, resets and leaks: a reset  *)
(* in the middle of trading puts a document in two places, or an offer     *)
(* without its file on the board, only where a thread had the document in  *)
(* hand when the board was cleared; and no tag stays frozen for good.      *)
(***************************************************************************)
EXTENDS Reset, TradeProofs

-----------------------------------------------------------------------------
\* The types.

\* What a thread keeps in the middle of fire_public_leak.
Leaker == [pc : {"leak_freeze", "leak_arm"}, tag : Tag]

Places == {"idle", "board", "npcs"}
SeedPlaces == {"seed_write", "seed_add", "seed_npc"}

ResetStates ==
    [pc : Places] \cup [pc : {"sandboxes"}, todo : SUBSET User]
    \cup [pc : SeedPlaces, n : Nat \ {0}]

ResetPlace ==
    /\ rs \in ResetStates
    /\ rs.pc = "seed_add" => rs.n <= Len(SeedDocs)

ResetTypes == TypesWith(Leaker) /\ ResetPlace /\ recovery \in [Tag -> Nat]

\* The documents stay where they are, and the event thread has none or keeps it.
Still ==
    /\ BoardSame /\ ThreadsSame
    /\ UNCHANGED <<master, sandbox, g_doc_id_counter>>
    /\ ev' = ev \/ {ev.pc, ev'.pc} \subseteq {"idle", "leak_freeze", "leak_arm"}

LEMMA LeakersApart ==
    /\ Strangers(Leaker)
    /\ \A p \in {"leak_freeze", "leak_arm"}, t \in Tag : [pc |-> p, tag |-> t] \in Leaker
    /\ \A h \in Leaker : h.tag \in Tag /\ [h EXCEPT !.pc = "leak_arm"] = [pc |-> "leak_arm", tag |-> h.tag]
<1>1. ASSUME NEW h \in Leaker
      PROVE  h.pc \notin OwnPc
  BY DEF Leaker, OwnPc, IdlePc, CountPc, MovePc
<1>2. QED
  BY <1>1 DEF Strangers, Leaker

\* A thread at one of the points of a leak has the locals of a leak.
LEMMA LeakerAt ==
    ASSUME NEW h \in HandlerState \cup EventState \cup Leaker, h.pc \in {"leak_freeze", "leak_arm"}
    PROVE  h \in Leaker
BY DEF HandlerState, EventState

\* A handler goes on within a leak, into one or out of one.
LEMMA LeakerGoes ==
    ASSUME TypesWith(Leaker), NEW u \in User, ~ Passes(u),
           NEW h \in Leaker \cup {Ready}, Goto(u, h)
    PROVE  th' \in [User -> HandlerState \cup Leaker] /\ ThreadsSame
<1>1. h \in HandlerState \cup Leaker /\ h.pc \notin Passing
  BY ReadyIdle DEF Leaker, Passing
<1>2. QED
  BY <1>1 DEF Goto, ThreadsSame, ThreadSame, Passes, TypesWith

LEMMA StartRecoveryEffect ==
    ASSUME TypeOK, recovery \in [Tag -> Nat], NEW t \in Tag, StartRecovery(t)
    PROVE  TypeOK' /\ BoardSame /\ recovery' \in [Tag -> Nat]
<1>1. CASE recovery' = [recovery EXCEPT ![t] = @ + 1] /\ UNCHANGED vars
  BY <1>1, BoardStays
<1>2. CASE unfreeze_tags({t}) /\ UNCHANGED recovery
  BY <1>2, FrostEffect
<1>3. QED
  BY <1>1, <1>2 DEF StartRecovery

\* The event thread in fire_public_leak.
LEMMA EventLeakKind ==
    ASSUME ResetTypes, (\E t \in Tag : EventLeak(t)) \/ EventFreeze \/ EventArm
    PROVE  ResetTypes' /\ Still
<1>1. UNCHANGED <<users_dat, master, sandbox, th, raid, g_doc_id_counter, g_npc_id_counter,
                  faults, lost, rs>>
  BY DEF EventLeak, EventFreeze, EventArm, store, counters, ResetStays
<1>2. TypeOK /\ recovery \in [Tag -> Nat] /\ ev \in EventState \cup Leaker
  BY DEF ResetTypes, TypesWith
<1> DEFINE Goal == /\ TypeOK' /\ BoardSame /\ recovery' \in [Tag -> Nat]
                   /\ ev' \in EventState \cup Leaker
                   /\ {ev.pc, ev'.pc} \subseteq {"idle", "leak_freeze", "leak_arm"}
<1>3. Goal
  <2>1. ASSUME NEW t \in Tag, EventLeak(t)
        PROVE  Goal
    BY <1>2, <2>1, BoardStays, LeakersApart DEF EventLeak
  <2>2. CASE EventFreeze
    <3>1. ev \in Leaker /\ freeze_tags({ev.tag}) /\ ev' = [ev EXCEPT !.pc = "leak_arm"]
      BY <1>2, <2>2, LeakerAt DEF EventFreeze
    <3>2. ev.tag \in Tag /\ ev' = [pc |-> "leak_arm", tag |-> ev.tag] /\ ev' \in Leaker
      BY <3>1, LeakersApart
    <3>3. TypeOK' /\ BoardSame
      BY <1>2, <3>1, <3>2, FrostEffect
    <3>4. ev.pc = "leak_freeze" /\ ev'.pc = "leak_arm" /\ UNCHANGED recovery
      BY <2>2, <3>2 DEF EventFreeze, LeaksStay
    <3>5. QED
      BY <1>2, <3>2, <3>3, <3>4
  <2>3. CASE EventArm
    <3>1. ev.tag \in Tag /\ StartRecovery(ev.tag) /\ ev' = [pc |-> "idle"]
      BY <1>2, <2>3, LeakerAt, LeakersApart DEF EventArm
    <3>2. TypeOK' /\ BoardSame /\ recovery' \in [Tag -> Nat]
      BY <1>2, <3>1, StartRecoveryEffect
    <3>3. QED
      BY <2>3, <3>1, <3>2, EventForms DEF EventArm
  <2>4. QED
    BY <2>1, <2>2, <2>3
<1>4. ThreadsSame
  BY <1>1 DEF ThreadsSame, ThreadSame, Passes
<1>5. QED
  BY <1>1, <1>3, <1>4 DEF ResetTypes, TypesWith, ResetPlace, Still

\* A handler in /fake leak, and a timer that goes off.
LEMMA OtherLeakKind ==
    ASSUME ResetTypes,
           \/ \E t \in Tag : leak_recovery(t) \/ \E u \in User : FakeLeak(u, t)
           \/ \E u \in User : HandlerFreeze(u) \/ HandlerArm(u)
    PROVE  ResetTypes' /\ Still
<1>1. UNCHANGED <<users_dat, master, sandbox, ev, raid, g_doc_id_counter, g_npc_id_counter,
                  faults, lost, rs>>
  BY DEF FakeLeak, HandlerFreeze, HandlerArm, leak_recovery, store, counters, ResetStays,
         ThreadsStay
<1>2. /\ TypeOK /\ recovery \in [Tag -> Nat] /\ TypesWith(Leaker)
      /\ \A u \in User : th[u] \in HandlerState \cup Leaker
  BY DEF ResetTypes, TypesWith
<1> DEFINE Goal == /\ TypeOK' /\ BoardSame /\ recovery' \in [Tag -> Nat]
                   /\ th' \in [User -> HandlerState \cup Leaker] /\ ThreadsSame
<1>3. Goal
  <2>1. ASSUME NEW t \in Tag, leak_recovery(t)
        PROVE  Goal
    <3>1. TypeOK' /\ BoardSame
      BY <1>2, <2>1, FrostEffect DEF leak_recovery
    <3>2. recovery' \in [Tag -> Nat]
      <4>1. recovery[t] \in Nat /\ recovery[t] > 0
        BY <1>2, <2>1 DEF leak_recovery
      <4>2. recovery[t] - 1 \in Nat
        BY <4>1
      <4>3. QED
        BY <1>2, <2>1, <4>2 DEF leak_recovery
    <3>3. UNCHANGED th
      BY <2>1 DEF leak_recovery, ThreadsStay
    <3>4. QED
      BY <1>2, <3>1, <3>2, <3>3 DEF TypesWith, ThreadsSame, ThreadSame, Passes
  <2>2. ASSUME NEW t \in Tag, NEW u \in User, FakeLeak(u, t)
        PROVE  Goal
    <3>1. [pc |-> "leak_freeze", tag |-> t] \in Leaker /\ ~ Passes(u)
      BY <2>2, LeakersApart DEF FakeLeak, At, Passes, Passing
    <3>2. th' \in [User -> HandlerState \cup Leaker] /\ ThreadsSame
      BY <1>2, <2>2, <3>1, LeakerGoes DEF FakeLeak
    <3>3. QED
      BY <1>2, <2>2, <3>2, BoardStays DEF FakeLeak
  <2>3. ASSUME NEW u \in User, HandlerFreeze(u)
        PROVE  Goal
    <3>1. th[u] \in Leaker /\ ~ Passes(u)
      BY <1>2, <2>3, LeakerAt DEF HandlerFreeze, At, Passes, Passing
    <3>2. PICK h \in Leaker : h = [th[u] EXCEPT !.pc = "leak_arm"]
      BY <3>1, LeakersApart
    <3>3. th' \in [User -> HandlerState \cup Leaker] /\ ThreadsSame
      BY <1>2, <2>3, <3>1, <3>2, LeakerGoes DEF HandlerFreeze
    <3>4. TypeOK' /\ BoardSame
      <4>1. th[u].tag \in Tag
        BY <3>1, LeakersApart
      <4>2. QED
        BY <1>2, <2>3, <4>1, FrostEffect DEF HandlerFreeze
    <3>5. QED
      BY <1>2, <2>3, <3>3, <3>4 DEF HandlerFreeze, LeaksStay
  <2>4. ASSUME NEW u \in User, HandlerArm(u)
        PROVE  Goal
    <3>1. th[u] \in Leaker /\ ~ Passes(u)
      BY <1>2, <2>4, LeakerAt DEF HandlerArm, At, Passes, Passing
    <3>2. th' \in [User -> HandlerState \cup Leaker] /\ ThreadsSame
      BY <1>2, <2>4, <3>1, LeakerGoes DEF HandlerArm
    <3>3. TypeOK' /\ BoardSame /\ recovery' \in [Tag -> Nat]
      BY <1>2, <2>4, <3>1, LeakersApart, StartRecoveryEffect DEF HandlerArm
    <3>4. QED
      BY <3>2, <3>3
  <2>5. QED
    BY <2>1, <2>2, <2>3, <2>4
<1>4. QED
  BY <1>1, <1>3 DEF ResetTypes, TypesWith, ResetPlace, Still

LEMMA LeakKind ==
    ASSUME ResetTypes, Leaking
    PROVE  ResetTypes' /\ Still /\ ResetStays
<1>1. ResetTypes' /\ Still
  BY EventLeakKind, OtherLeakKind DEF Leaking
<1>2. ResetStays
  BY DEF Leaking, EventLeak, leak_recovery, FakeLeak, EventFreeze, EventArm, HandlerFreeze,
         HandlerArm
<1>3. QED
  BY <1>1, <1>2

LEMMA TradingKind ==
    ASSUME ResetTypes, Trading
    PROVE  ResetTypes' /\ Kinds /\ ResetStays /\ LeaksStay
<1>1. [TradeNext]_tvars /\ ResetStays /\ LeaksStay
  BY DEF Trading, TradeNext, World
<1>2. TypesWith(Leaker)' /\ Kinds
  BY <1>1, LeakersApart, StepKindsWith DEF ResetTypes
<1>3. QED
  BY <1>1, <1>2 DEF ResetTypes, ResetPlace, ResetStays, LeaksStay

-----------------------------------------------------------------------------
\* The steps of a reset.

\* What every one of them leaves alone.
Aside ==
    UNCHANGED <<th, ev, raid, g_doc_id_counter, g_npc_id_counter, faults, lost, recovery>>

LEMMA ResetAside ==
    ASSUME Resetting
    PROVE  Aside /\ ThreadsSame
<1>1. Aside
  BY DEF Resetting, ResetMaster, ResetSandbox, ResetUsers, ResetBoard, ResetNpcs, SeedWrite,
         SeedAdd, SeedNpcsBegin, SeedNpc, ResetDone, ResetOnly, ThreadsStay, LeaksStay,
         counters, Aside
<1>2. QED
  BY <1>1 DEF Aside, ThreadsSame, ThreadSame, Passes

LEMMA AsideTypes ==
    ASSUME ResetTypes, Aside, ResetPlace', TypeOK', users_dat' \in [User -> Int],
           master' \in Table(DocId, SUBSET Tag),
           sandbox' \in [User -> Table(DocId, SUBSET Tag)]
    PROVE  ResetTypes'
BY DEF ResetTypes, TypesWith, Aside

\* Where the timer thread goes from each point.
LEMMA PlaceGoes ==
    /\ \A q \in Places : [pc |-> q] \in [pc : Places]
    /\ \A q \in SeedPlaces, k \in Nat \ {0} : [pc |-> q, n |-> k] \in [pc : SeedPlaces, n : Nat \ {0}]
    /\ \A r \in ResetStates :
          r.pc \in SeedPlaces =>
             /\ r.n \in Nat \ {0}
             /\ \A q : [r EXCEPT !.pc = q] = [pc |-> q, n |-> r.n]
             /\ \A k : [r EXCEPT !.n = k] = [pc |-> r.pc, n |-> k]
BY DEF ResetStates, Places, SeedPlaces

LEMMA StepGoes ==
    ASSUME NEW p, NEW q \in Places, Step(p, q)
    PROVE  ResetPlace' /\ rs.pc = p /\ rs'.pc = q
<1>1. rs' = [pc |-> q] /\ rs.pc = p
  BY DEF Step
<1>2. rs' \in [pc : Places] /\ rs'.pc = q
  BY <1>1, PlaceGoes
<1>3. QED
  BY <1>1, <1>2 DEF ResetPlace, ResetStates, Places

\* The seeds that a reset has still to list.
ToSeed(d) ==
    \E k \in DOMAIN SeedDocs :
        /\ SeedDocs[k].doc_id = d
        /\ rs.pc = "npcs" \/ (rs.pc \in {"seed_write", "seed_add"} /\ rs.n <= k)

\* The reset has emptied u's folder, and not yet cleared the board.
Swept(u) == rs.pc = "board" \/ (rs.pc = "sandboxes" /\ u \notin rs.todo)

\* The reset goes on, and with the documents nothing happens.
Passed ==
    /\ Still /\ UNCHANGED caught
    /\ (Clearing' <=> Clearing) /\ \A u \in User : Swept(u)' => Swept(u)
    /\ rs'.pc # "seed_add"
    /\ \A d : ToSeed(d)' => ToSeed(d)

LEMMA PassKind ==
    ASSUME ResetTypes, ResetUsers \/ ResetNpcs \/ SeedNpcsBegin \/ SeedNpc \/ ResetDone
    PROVE  ResetTypes' /\ Passed
<1>1. Aside /\ ThreadsSame
  BY ResetAside DEF Resetting
<1>2. UNCHANGED <<master, sandbox, caught>>
  BY DEF ResetUsers, ResetNpcs, SeedNpcsBegin, SeedNpc, ResetDone, ResetOnly, store
<1>3. /\ TypeOK /\ users_dat \in [User -> Int] /\ master \in Table(DocId, SUBSET Tag)
      /\ sandbox \in [User -> Table(DocId, SUBSET Tag)]
      /\ rs \in ResetStates
  BY DEF ResetTypes, TypesWith, ResetPlace
<1>4. TypeOK' /\ BoardSame
  <2>1. CASE ResetUsers \/ SeedNpcsBegin \/ ResetDone
    BY <1>3, <2>1, BoardStays DEF ResetUsers, SeedNpcsBegin, ResetDone
  <2>2. CASE ResetNpcs
    <3>1. UNCHANGED <<g_market, g_frozen_tags>> /\ g_npc' \in Table(NpcIndex, NPCSlot)
      BY <2>2, EmptyType DEF ResetNpcs, market_init_npc
    <3>2. QED
      BY <1>3, <3>1 DEF TypeOK, BoardSame, SameOffer
  <2>3. CASE SeedNpc
    <3>1. rs.n \in DOMAIN SeedNpcs
      <4>1. rs.n \in Nat \ {0} /\ rs.n <= Len(SeedNpcs)
        BY <1>3, <2>3, PlaceGoes DEF SeedNpc, SeedPlaces
      <4>2. QED
        BY <4>1, SeedsTyped
    <3>2. SeedNpcs[rs.n] \in NPCSlot
      BY <3>1, SeedsTyped
    <3>3. PICK s \in NPCSlot : s = SeedNpcs[rs.n]
      BY <3>2
    <3>4. s.npc_id \in NpcId /\ s.required_tags \in SUBSET Tag /\ s.bounty \in Bounty
      BY DEF NPCSlot
    <3>5. npc_add(s.npc_id, s.required_tags, s.bounty) \/ UNCHANGED vars
      BY <2>3, <3>3 DEF SeedNpc
    <3>6. QED
      BY <1>3, <3>4, <3>5, NpcEffect, BoardStays
  <2>4. QED
    BY <2>1, <2>2, <2>3
<1>5. users_dat' \in [User -> Int]
  <2>1. CASE ResetUsers
    <3>1. BURNED \in Int /\ INITIAL_MONEY \in Int
      BY TradeAssumption DEF BURNED
    <3>2. QED
      BY <2>1, <3>1 DEF ResetUsers
  <2>2. CASE ~ ResetUsers
    BY <1>3, <2>2 DEF ResetNpcs, SeedNpcsBegin, SeedNpc, ResetDone, store
  <2>3. QED
    BY <2>1, <2>2
<1>6. /\ ResetPlace' /\ (Clearing' <=> Clearing) /\ \A u \in User : Swept(u)' => Swept(u)
      /\ rs'.pc # "seed_add" /\ \A d : ToSeed(d)' => ToSeed(d)
  <2>1. CASE ResetUsers
    <3>1. ResetPlace' /\ rs.pc = "sandboxes" /\ rs'.pc = "board" /\ rs.todo = {}
      BY <2>1, StepGoes DEF ResetUsers, Places
    <3>2. QED
      BY <3>1 DEF Clearing, Swept, ToSeed
  <2>2. CASE ResetNpcs
    <3>1. rs.pc = "npcs" /\ rs' = [pc |-> "seed_write", n |-> 1]
      BY <2>2 DEF ResetNpcs
    <3>2. rs' \in [pc : SeedPlaces, n : Nat \ {0}]
      BY <3>1, PlaceGoes DEF SeedPlaces
    <3>3. QED
      BY <3>1, <3>2 DEF ResetPlace, ResetStates, Clearing, Swept, ToSeed
  <2>3. CASE SeedNpcsBegin
    <3>1. rs.pc = "seed_write" /\ rs' = [pc |-> "seed_npc", n |-> 1]
      BY <2>3 DEF SeedNpcsBegin
    <3>2. rs' \in [pc : SeedPlaces, n : Nat \ {0}]
      BY <3>1, PlaceGoes DEF SeedPlaces
    <3>3. QED
      BY <3>1, <3>2 DEF ResetPlace, ResetStates, Clearing, Swept, ToSeed
  <2>4. CASE SeedNpc
    <3>1. rs.pc = "seed_npc" /\ rs' = [rs EXCEPT !.n = rs.n + 1]
      BY <2>4 DEF SeedNpc
    <3>2. rs.n + 1 \in Nat \ {0}
      BY <1>3, <3>1, PlaceGoes DEF SeedPlaces
    <3>3. rs' = [pc |-> "seed_npc", n |-> rs.n + 1]
      BY <1>3, <3>1, PlaceGoes DEF SeedPlaces
    <3>4. rs' \in [pc : SeedPlaces, n : Nat \ {0}] /\ rs'.pc = "seed_npc"
      BY <3>2, <3>3, PlaceGoes DEF SeedPlaces
    <3>5. QED
      BY <3>1, <3>4 DEF ResetPlace, ResetStates, Clearing, Swept, ToSeed
  <2>5. CASE ResetDone
    <3>1. rs.pc = "seed_npc" /\ rs' = [pc |-> "idle"]
      BY <2>5 DEF ResetDone
    <3>2. rs' \in [pc : Places]
      BY <3>1, PlaceGoes DEF Places
    <3>3. QED
      BY <3>1, <3>2 DEF ResetPlace, ResetStates, Clearing, Swept, ToSeed
  <2>6. QED
    BY <2>1, <2>2, <2>3, <2>4, <2>5
<1>7. ResetTypes'
  BY <1>1, <1>2, <1>3, <1>4, <1>5, <1>6, AsideTypes
<1>8. Still
  BY <1>1, <1>2, <1>4 DEF Aside, Still
<1>9. QED
  BY <1>2, <1>6, <1>7, <1>8 DEF Passed

LEMMA MasterKind ==
    ASSUME ResetTypes, ResetMaster
    PROVE  /\ ResetTypes' /\ Aside /\ ThreadsSame /\ BoardSame /\ UNCHANGED <<sandbox, caught>>
           /\ DOMAIN master' = {} /\ rs'.pc = "sandboxes" /\ rs'.todo = User
<1>1. Aside /\ ThreadsSame
  BY ResetAside DEF Resetting
<1>2. ResetPlace' /\ rs'.pc = "sandboxes" /\ rs'.todo = User
  BY DEF ResetMaster, ResetPlace, ResetStates
<1>3. /\ UNCHANGED <<vars, users_dat, sandbox, caught>>
      /\ master' = Vacate(master, DOMAIN master)
  BY DEF ResetMaster
<1>4. master' \in Table(DocId, SUBSET Tag) /\ DOMAIN master' = {}
  <2>1. master \in Table(DocId, SUBSET Tag)
    BY DEF ResetTypes, TypesWith
  <2>2. PICK w \in Table(DocId, SUBSET Tag) : /\ w = Vacate(master, DOMAIN master)
                                              /\ DOMAIN w = DOMAIN master \ DOMAIN master
    BY <2>1, FileTable
  <2>3. QED
    BY <1>3, <2>2
<1>5. TypeOK' /\ BoardSame
  BY <1>3, BoardStays DEF ResetTypes, TypesWith
<1>6. users_dat' \in [User -> Int] /\ sandbox' \in [User -> Table(DocId, SUBSET Tag)]
  BY <1>3 DEF ResetTypes, TypesWith
<1>7. ResetTypes'
  BY <1>1, <1>2, <1>4, <1>5, <1>6, AsideTypes
<1>8. QED
  BY <1>1, <1>2, <1>3, <1>4, <1>5, <1>7

LEMMA SandboxKind ==
    ASSUME ResetTypes, NEW u \in User, ResetSandbox(u)
    PROVE  /\ ResetTypes' /\ Aside /\ ThreadsSame /\ BoardSame /\ UNCHANGED <<master, caught>>
           /\ DOMAIN sandbox'[u] = {}
           /\ \A v \in User : v # u => sandbox'[v] = sandbox[v]
           /\ rs.pc = "sandboxes" /\ rs'.pc = "sandboxes" /\ rs'.todo = rs.todo \ {u}
<1>1. Aside /\ ThreadsSame
  BY ResetAside DEF Resetting
<1>2. ResetPlace' /\ rs.pc = "sandboxes" /\ rs'.pc = "sandboxes" /\ rs'.todo = rs.todo \ {u}
  <2>1. rs.pc = "sandboxes" /\ rs' = [rs EXCEPT !.todo = rs.todo \ {u}]
    BY DEF ResetSandbox
  <2>2. rs \in ResetStates
    BY DEF ResetTypes, ResetPlace
  <2>3. rs \in [pc : {"sandboxes"}, todo : SUBSET User]
    BY <2>1, <2>2 DEF ResetStates, Places, SeedPlaces
  <2>4. rs' \in [pc : {"sandboxes"}, todo : SUBSET User] /\ rs'.todo = rs.todo \ {u}
    BY <2>1, <2>3
  <2>5. QED
    BY <2>1, <2>4 DEF ResetPlace, ResetStates
<1>3. /\ UNCHANGED <<vars, users_dat, master, caught>>
      /\ sandbox' = [sandbox EXCEPT ![u] = Vacate(sandbox[u], DOMAIN sandbox[u])]
  BY DEF ResetSandbox, ResetOnly, sandbox_purge_user
<1>4. sandbox \in [User -> Table(DocId, SUBSET Tag)]
  BY DEF ResetTypes, TypesWith
<1>5. PICK w \in Table(DocId, SUBSET Tag) : /\ w = Vacate(sandbox[u], DOMAIN sandbox[u])
                                            /\ DOMAIN w = DOMAIN sandbox[u] \ DOMAIN sandbox[u]
  <2>1. sandbox[u] \in Table(DocId, SUBSET Tag)
    BY <1>4
  <2>2. /\ Vacate(sandbox[u], DOMAIN sandbox[u]) \in Table(DocId, SUBSET Tag)
        /\ DOMAIN Vacate(sandbox[u], DOMAIN sandbox[u]) = DOMAIN sandbox[u] \ DOMAIN sandbox[u]
    BY <2>1, FileTable
  <2>3. QED
    BY <2>2
<1>6. /\ sandbox' \in [User -> Table(DocId, SUBSET Tag)] /\ DOMAIN sandbox'[u] = {}
      /\ \A v \in User : v # u => sandbox'[v] = sandbox[v]
  <2>1. sandbox' = [sandbox EXCEPT ![u] = w] /\ DOMAIN w = {}
    BY <1>3, <1>5
  <2>2. QED
    BY <1>4, <2>1
<1>7. TypeOK' /\ BoardSame
  BY <1>3, BoardStays DEF ResetTypes, TypesWith
<1>8. users_dat' \in [User -> Int] /\ master' \in Table(DocId, SUBSET Tag)
  BY <1>3 DEF ResetTypes, TypesWith
<1>9. ResetTypes'
  BY <1>1, <1>2, <1>6, <1>7, <1>8, AsideTypes
<1>10. QED
  BY <1>1, <1>2, <1>3, <1>6, <1>7, <1>9

LEMMA BoardKind ==
    ASSUME ResetTypes, ResetBoard
    PROVE  /\ ResetTypes' /\ Aside /\ ThreadsSame /\ UNCHANGED <<master, sandbox>>
           /\ DOMAIN g_market' = {} /\ g_frozen_tags' = {}
           /\ caught' = caught \cup InHand
           /\ rs.pc = "board" /\ rs'.pc = "npcs"
<1>1. Aside /\ ThreadsSame
  BY ResetAside DEF Resetting
<1>2. ResetPlace' /\ rs.pc = "board" /\ rs'.pc = "npcs"
  BY StepGoes DEF ResetBoard, Places
<1>3. /\ UNCHANGED <<users_dat, master, sandbox, g_npc>> /\ caught' = caught \cup InHand
      /\ g_market' = [i \in {} |-> {}] /\ g_frozen_tags' = {}
  BY DEF ResetBoard, market_init_board, store
<1>4. g_market' \in Table(MarketIndex, MarketSlot) /\ DOMAIN g_market' = {}
  BY <1>3, EmptyType
<1>5. TypeOK'
  BY <1>3, <1>4 DEF ResetTypes, TypesWith, TypeOK
<1>6. /\ users_dat' \in [User -> Int] /\ master' \in Table(DocId, SUBSET Tag)
      /\ sandbox' \in [User -> Table(DocId, SUBSET Tag)]
  BY <1>3 DEF ResetTypes, TypesWith
<1>7. ResetTypes'
  BY <1>1, <1>2, <1>5, <1>6, AsideTypes
<1>8. QED
  BY <1>1, <1>2, <1>3, <1>4, <1>7

\* The seed at hand.
LEMMA SeedAtHand ==
    ASSUME ResetTypes, SeedWrite \/ SeedAdd
    PROVE  /\ rs.n \in DOMAIN SeedDocs /\ rs.n \in Nat \ {0} /\ rs.pc \in SeedPlaces
           /\ SeedDocs[rs.n] \in OfferShown
           /\ rs \in ResetStates
<1>1. rs \in ResetStates /\ rs.pc \in SeedPlaces
  BY DEF ResetTypes, ResetPlace, SeedWrite, SeedAdd, SeedPlaces
<1>2. rs.n \in Nat \ {0}
  BY <1>1, PlaceGoes
<1>3. rs.n <= Len(SeedDocs)
  BY DEF ResetTypes, ResetPlace, SeedWrite, SeedAdd
<1>4. rs.n \in DOMAIN SeedDocs
  BY <1>2, <1>3, SeedsTyped
<1>5. QED
  BY <1>1, <1>2, <1>4, SeedsTyped

LEMMA SeedWriteKind ==
    ASSUME ResetTypes, SeedWrite
    PROVE  /\ ResetTypes' /\ Aside /\ ThreadsSame /\ BoardSame /\ UNCHANGED <<sandbox, caught>>
           /\ rs.n \in DOMAIN SeedDocs /\ rs.pc = "seed_write"
           /\ rs'.pc = "seed_add" /\ rs'.n = rs.n
           /\ DOMAIN master' = DOMAIN master \cup {SeedDocs[rs.n].doc_id}
           /\ master'[SeedDocs[rs.n].doc_id] = SeedDocs[rs.n].tags
           /\ \A e \in DOMAIN master \ {SeedDocs[rs.n].doc_id} : master'[e] = master[e]
<1>1. Aside /\ ThreadsSame
  BY ResetAside DEF Resetting
<1>2. /\ rs.n \in DOMAIN SeedDocs /\ SeedDocs[rs.n] \in OfferShown
      /\ rs.pc = "seed_write" /\ rs.n \in Nat \ {0} /\ rs.n <= Len(SeedDocs)
  BY SeedAtHand DEF SeedWrite
<1>3. /\ UNCHANGED <<vars, users_dat, sandbox, caught>>
      /\ rs' = [rs EXCEPT !.pc = "seed_add"]
      /\ master' = Fill(master, SeedDocs[rs.n].doc_id, SeedDocs[rs.n].tags)
  BY DEF SeedWrite, master_write_doc, ResetOnly
<1>4. rs' = [pc |-> "seed_add", n |-> rs.n]
  BY <1>3, SeedAtHand, PlaceGoes
<1>5. rs' \in [pc : SeedPlaces, n : Nat \ {0}] /\ rs'.pc = "seed_add" /\ rs'.n = rs.n
  BY <1>2, <1>4, PlaceGoes DEF SeedPlaces
<1>6. ResetPlace'
  BY <1>2, <1>5 DEF ResetPlace, ResetStates
<1>7. PICK c \in DocId, T \in SUBSET Tag : c = SeedDocs[rs.n].doc_id /\ T = SeedDocs[rs.n].tags
  BY <1>2 DEF OfferShown
<1>8. /\ master' \in Table(DocId, SUBSET Tag)
      /\ DOMAIN master' = DOMAIN master \cup {c} /\ master'[c] = T
      /\ \A e \in DOMAIN master \ {c} : master'[e] = master[e]
  <2>1. master \in Table(DocId, SUBSET Tag)
    BY DEF ResetTypes, TypesWith
  <2>2. \A e \in DocId, M \in SUBSET Tag :
           /\ Fill(master, e, M) \in Table(DocId, SUBSET Tag)
           /\ DOMAIN Fill(master, e, M) = DOMAIN master \cup {e}
           /\ Fill(master, e, M)[e] = M
           /\ \A f \in DOMAIN master \ {e} : Fill(master, e, M)[f] = master[f]
    BY <2>1, FileTable, Zenon
  <2>3. /\ Fill(master, c, T) \in Table(DocId, SUBSET Tag)
        /\ DOMAIN Fill(master, c, T) = DOMAIN master \cup {c}
        /\ Fill(master, c, T)[c] = T
        /\ \A f \in DOMAIN master \ {c} : Fill(master, c, T)[f] = master[f]
    BY <2>2, Zenon
  <2>4. QED
    BY <1>3, <1>7, <2>3
<1>9. TypeOK' /\ BoardSame
  BY <1>3, BoardStays DEF ResetTypes, TypesWith
<1>10. users_dat' \in [User -> Int] /\ sandbox' \in [User -> Table(DocId, SUBSET Tag)]
  BY <1>3 DEF ResetTypes, TypesWith
<1>11. ResetTypes'
  BY <1>1, <1>6, <1>8, <1>9, <1>10, AsideTypes
<1>12. QED
  BY <1>1, <1>2, <1>3, <1>5, <1>7, <1>8, <1>9, <1>11

LEMMA SeedAddKind ==
    ASSUME ResetTypes, SeedAdd
    PROVE  /\ ResetTypes' /\ Aside /\ ThreadsSame /\ UNCHANGED <<master, sandbox, caught>>
           /\ \/ BoardSame
              \/ BoardMore(SeedDocs[rs.n].doc_id, SeedDocs[rs.n].tags, SeedDocs[rs.n].base_price)
           /\ rs.n \in DOMAIN SeedDocs /\ rs.n \in Nat /\ rs.pc = "seed_add"
           /\ rs'.pc = "seed_write" /\ rs'.n = rs.n + 1
<1>1. Aside /\ ThreadsSame
  BY ResetAside DEF Resetting
<1>2. /\ rs.n \in DOMAIN SeedDocs /\ SeedDocs[rs.n] \in OfferShown
      /\ rs.pc = "seed_add" /\ rs.n \in Nat \ {0}
  BY SeedAtHand DEF SeedAdd
<1>3. /\ UNCHANGED <<users_dat, master, sandbox, caught>>
      /\ rs' = [pc |-> "seed_write", n |-> rs.n + 1]
  BY DEF SeedAdd, store, ResetOnly
<1>4. rs.n + 1 \in Nat \ {0}
  BY <1>2
<1>5. rs' \in [pc : SeedPlaces, n : Nat \ {0}] /\ rs'.pc = "seed_write" /\ rs'.n = rs.n + 1
  BY <1>3, <1>4, PlaceGoes DEF SeedPlaces
<1>6. ResetPlace'
  BY <1>5 DEF ResetPlace, ResetStates
<1>7. PICK c \in DocId, T \in SUBSET Tag, p \in Price :
         /\ c = SeedDocs[rs.n].doc_id /\ T = SeedDocs[rs.n].tags
         /\ p = SeedDocs[rs.n].base_price
  BY <1>2 DEF OfferShown
<1>8. TypeOK' /\ (BoardSame \/ BoardMore(c, T, p))
  <2>1. market_add(c, T, p) \/ UNCHANGED vars
    BY <1>7 DEF SeedAdd
  <2>2. TypeOK
    BY DEF ResetTypes, TypesWith
  <2>3. QED
    BY <2>1, <2>2, AddEffect, BoardStays
<1>9. /\ users_dat' \in [User -> Int] /\ master' \in Table(DocId, SUBSET Tag)
      /\ sandbox' \in [User -> Table(DocId, SUBSET Tag)]
  BY <1>3 DEF ResetTypes, TypesWith
<1>10. ResetTypes'
  BY <1>1, <1>6, <1>8, <1>9, AsideTypes
<1>11. QED
  BY <1>1, <1>2, <1>3, <1>5, <1>7, <1>8, <1>10

LEMMA ResetKind ==
    ASSUME ResetTypes, Resetting
    PROVE  ResetTypes'
BY PassKind, MasterKind, SandboxKind, BoardKind, SeedWriteKind, SeedAddKind DEF Resetting

LEMMA ResetStutter ==
    ASSUME ResetTypes, UNCHANGED zvars
    PROVE  ResetTypes' /\ Still /\ ResetStays
<1>1. UNCHANGED tvars /\ UNCHANGED <<rs, recovery>> /\ ResetStays
  BY DEF zvars, ResetStays
<1>2. TypesWith(Leaker)' /\ Quiet
  BY <1>1, LeakersApart, StutterKind DEF ResetTypes
<1>3. Still
  BY <1>1, <1>2 DEF Quiet, Still, tvars, store, counters
<1>4. QED
  BY <1>1, <1>2, <1>3 DEF ResetTypes, ResetPlace

LEMMA ResetTypesStep ==
    ASSUME ResetTypes, [ResetNext]_zvars
    PROVE  ResetTypes'
BY TradingKind, LeakKind, ResetKind, ResetStutter DEF ResetNext

LEMMA ResetStart ==
    ASSUME ResetInit
    PROVE  ResetTypes
<1>1. TradeTypeOK /\ rs = [pc |-> "idle"] /\ recovery = [t \in Tag |-> 0]
  BY TradeStart DEF ResetInit
<1>2. TypesWith(Leaker)
  BY <1>1 DEF TradeTypeOK, TypesWith
<1>3. ResetPlace
  BY <1>1 DEF ResetPlace, ResetStates, Places
<1>4. QED
  BY <1>1, <1>2, <1>3 DEF ResetTypes

-----------------------------------------------------------------------------
\* Frozen tags.

\* Trading does not touch the mask, nor a thread that is about to start a timer.
LEMMA TradingKeepsLeaks ==
    ASSUME ResetTypes, Trading
    PROVE  /\ UNCHANGED <<g_frozen_tags, recovery>>
           /\ ev.pc = "leak_arm" => ev' = ev
           /\ \A u \in User : At(u, "leak_arm") => th'[u] = th[u]
<1>1. UNCHANGED recovery
  BY DEF Trading, LeaksStay
<1>2. ASSUME NEW v \in User, Request(v) \/ Handler(v)
      PROVE  /\ UNCHANGED <<g_frozen_tags, ev>>
             /\ \A u \in User : At(u, "leak_arm") => th'[u] = th[u]
  <2>1. /\ UNCHANGED <<g_frozen_tags, ev>> /\ th[v].pc # "leak_arm"
        /\ (\E h : Goto(v, h)) \/ th' = th
    BY <1>2, HandlerTouches DEF OwnPc, IdlePc, CountPc, MovePc
  <2>2. th \in [User -> HandlerState \cup Leaker]
    BY DEF ResetTypes, TypesWith
  <2>3. QED
    BY <2>1, <2>2 DEF Goto, At
<1>3. CASE Spawner
  BY <1>3, <1>1 DEF Spawner, SpawnWrite, SpawnAdd, RemoveFile, HandlersStay, market_add, vars, At
<1>4. CASE Traffic
  BY <1>4, <1>1 DEF Traffic, SpawnChoose, AgeMarket, AgeNpcs, NpcSpawn, HandlersStay, vars,
                    market_despawn_aged, npc_despawn_aged, npc_add, At
<1>5. QED
  BY <1>1, <1>2, <1>3, <1>4 DEF Trading

\* Who sees to it that a tag thaws.
Thaws(t) ==
    \/ recovery[t] > 0
    \/ ev.pc = "leak_arm" /\ ev.tag = t
    \/ \E u \in User : At(u, "leak_arm") /\ th[u].tag = t

LEMMA TradingThaws ==
    ASSUME ResetTypes, Trading, NEW t, Thaws(t)
    PROVE  Thaws(t)'
BY TradingKeepsLeaks DEF Thaws, At

\* A thread that begins a leak has nothing to see to yet; one that has frozen its tag
\* goes on to start the timer, or thaws the tag itself.
LEMMA LeakThaws ==
    ASSUME ResetTypes, Leaking, NEW t \in g_frozen_tags',
           t \in g_frozen_tags => Thaws(t)
    PROVE  Thaws(t)'
<1>1. /\ TypeOK /\ recovery \in [Tag -> Nat] /\ ev \in EventState \cup Leaker
      /\ th \in [User -> HandlerState \cup Leaker]
  BY DEF ResetTypes, TypesWith
<1>2. \A c \in Tag : recovery[c] \in Nat
  BY <1>1
<1>3. ASSUME NEW c \in Tag, EventLeak(c)
      PROVE  Thaws(t)'
  BY <1>3 DEF EventLeak, vars, Thaws, At
<1>4. ASSUME NEW c \in Tag, NEW v \in User, FakeLeak(v, c)
      PROVE  Thaws(t)'
  BY <1>1, <1>4 DEF FakeLeak, vars, Thaws, At, Goto
<1>5. ASSUME NEW c \in Tag, leak_recovery(c)
      PROVE  Thaws(t)'
  <2>1. t # c /\ t \in g_frozen_tags
    BY <1>5 DEF leak_recovery, unfreeze_tags
  <2>2. recovery'[t] = recovery[t]
    BY <1>1, <1>5, <2>1 DEF leak_recovery
  <2>3. QED
    BY <1>5, <2>1, <2>2 DEF leak_recovery, ThreadsStay, Thaws, At
<1>6. CASE EventFreeze
  <2>1. ev \in Leaker /\ ev' = [ev EXCEPT !.pc = "leak_arm"]
    BY <1>1, <1>6, LeakerAt DEF EventFreeze
  <2>2. ev'.pc = "leak_arm" /\ ev'.tag = ev.tag
    BY <2>1, LeakersApart
  <2>3. g_frozen_tags' = g_frozen_tags \cup {ev.tag} /\ ev.pc = "leak_freeze"
        /\ UNCHANGED <<th, recovery>>
    BY <1>6 DEF EventFreeze, freeze_tags, LeaksStay
  <2>4. QED
    BY <2>2, <2>3 DEF Thaws, At
<1>7. ASSUME NEW v \in User, HandlerFreeze(v)
      PROVE  Thaws(t)'
  <2>1. th[v] \in Leaker /\ th' = [th EXCEPT ![v] = [th[v] EXCEPT !.pc = "leak_arm"]]
    BY <1>1, <1>7, LeakerAt DEF HandlerFreeze, At, Goto
  <2>2. /\ th'[v].pc = "leak_arm" /\ th'[v].tag = th[v].tag
        /\ \A u \in User \ {v} : th'[u] = th[u]
    BY <1>1, <2>1, LeakersApart
  <2>3. /\ g_frozen_tags' = g_frozen_tags \cup {th[v].tag} /\ th[v].pc = "leak_freeze"
        /\ UNCHANGED <<ev, recovery>>
    BY <1>7 DEF HandlerFreeze, freeze_tags, LeaksStay, At
  <2>4. QED
    BY <2>2, <2>3 DEF Thaws, At
<1>8. ASSUME NEW c \in Tag, StartRecovery(c)
      PROVE  t \in g_frozen_tags /\ (recovery'[t] > 0 \/ (t # c /\ recovery'[t] = recovery[t]))
  <2>1. CASE recovery' = [recovery EXCEPT ![c] = @ + 1] /\ UNCHANGED vars
    BY <1>1, <1>2, <2>1 DEF vars
  <2>2. CASE unfreeze_tags({c}) /\ UNCHANGED recovery
    BY <2>2 DEF unfreeze_tags
  <2>3. QED
    BY <1>8, <2>1, <2>2 DEF StartRecovery
<1>9. CASE EventArm
  <2>1. ev.tag \in Tag /\ StartRecovery(ev.tag) /\ UNCHANGED th
    BY <1>1, <1>9, LeakerAt, LeakersApart DEF EventArm
  <2>2. t \in g_frozen_tags /\ (recovery'[t] > 0 \/ (t # ev.tag /\ recovery'[t] = recovery[t]))
    BY <1>8, <2>1
  <2>3. QED
    BY <2>1, <2>2 DEF Thaws, At
<1>10. ASSUME NEW v \in User, HandlerArm(v)
       PROVE  Thaws(t)'
  <2>1. th[v].tag \in Tag /\ StartRecovery(th[v].tag) /\ UNCHANGED ev /\ Goto(v, Ready)
    BY <1>1, <1>10, LeakerAt, LeakersApart DEF HandlerArm, At
  <2>2. t \in g_frozen_tags /\ (recovery'[t] > 0 \/ (t # th[v].tag /\ recovery'[t] = recovery[t]))
    BY <1>8, <2>1
  <2>3. \A u \in User \ {v} : th'[u] = th[u]
    BY <1>1, <2>1 DEF Goto
  <2>4. QED
    BY <2>1, <2>2, <2>3 DEF Thaws, At
<1>11. QED
  BY <1>3, <1>4, <1>5, <1>6, <1>7, <1>9, <1>10 DEF Leaking

\* A reset clears the mask, or leaves it, the timers and the threads as they are.
LEMMA ResetThaws ==
    ASSUME Resetting, NEW t \in g_frozen_tags'
    PROVE  t \in g_frozen_tags /\ (Thaws(t) => Thaws(t)')
<1>1. UNCHANGED <<th, ev, recovery>>
  BY ResetAside DEF Aside
<1>2. g_frozen_tags' \in {{}, g_frozen_tags}
  BY DEF Resetting, ResetMaster, ResetSandbox, ResetUsers, ResetBoard, ResetNpcs, SeedWrite,
         SeedAdd, SeedNpcsBegin, SeedNpc, ResetDone, vars, market_init_board, market_init_npc,
         market_add, npc_add
<1>3. QED
  BY <1>1, <1>2 DEF Thaws, At

\* No leak lasts for good, for any number of leaks, timers and resets: as long as a tag
\* is frozen, a recovery thread sleeps for it, or the thread that froze it has yet to
\* start one, whatever else has happened to the mask meanwhile.
THEOREM NoLeakForGood == ResetSpec => []FrozenWillThaw
<1> DEFINE Inv == ResetTypes /\ \A t \in g_frozen_tags : Thaws(t)
<1>1. ResetInit => Inv
  BY ResetStart DEF ResetInit, TradeInit
<1>2. Inv /\ [ResetNext]_zvars => Inv'
  <2>1. SUFFICES ASSUME Inv, [ResetNext]_zvars
                 PROVE  Inv'
    OBVIOUS
  <2>2. ResetTypes'
    BY <2>1, ResetTypesStep
  <2>3. ASSUME NEW t \in g_frozen_tags'
        PROVE  Thaws(t)'
    <3>1. CASE Trading
      BY <2>1, <2>3, <3>1, TradingThaws, TradingKeepsLeaks
    <3>2. CASE Leaking
      BY <2>1, <2>3, <3>2, LeakThaws
    <3>3. CASE Resetting
      BY <2>1, <2>3, <3>3, ResetThaws
    <3>4. CASE UNCHANGED zvars
      BY <2>1, <2>3, <3>4 DEF zvars, tvars, vars, Thaws, At
    <3>5. QED
      BY <2>1, <3>1, <3>2, <3>3, <3>4 DEF ResetNext
  <2>4. QED
    BY <2>2, <2>3
<1>3. Inv => FrozenWillThaw
  BY DEF FrozenWillThaw, Thaws
<1>4. QED
  BY <1>1, <1>2, <1>3, PTL DEF ResetSpec

-----------------------------------------------------------------------------
\* The documents.

IsSeed(d) == \E k \in DOMAIN SeedDocs : SeedDocs[k].doc_id = d

\* d is neither on the board nor in anybody's hands.
Nowhere(d) ==
    /\ SlotsOf(d) = {} /\ ~ WithSpawner(d)
    /\ \A u \in User : ~ InPassage(u, d) /\ ~ sandbox_has(u, d)

\* What the reset has swept away stays away until it seeds the board: nobody else
\* writes the file of a seed, and without a file nobody buys it.
SweptAway(d) ==
    IsSeed(d) => /\ Clearing => d \notin DOMAIN master
                 /\ \A u \in User : Swept(u) => ~ sandbox_has(u, d)

\* What a reset keeps true of a document that nobody had in hand: those of Trade, but
\* for the file while the reset has removed the files and not yet the offers; a seed is
\* nowhere until it is listed, and its file is there first.
InOrder(d) ==
    /\ Sole(d) /\ Fresh(d)
    /\ ~ Clearing => DocBacked(d)
    /\ ToSeed(d) => Nowhere(d)
    /\ rs.pc = "seed_add" /\ SeedDocs[rs.n].doc_id = d => Backed(d, SeedDocs[rs.n].tags)

\* The spawner gives out ids of its own.
SpawnerOwn == ev.pc \in {"spawn_write", "spawn_add"} => ev.doc_id \in 1 .. SPAWN_LIMIT

DocInv(d) == SweptAway(d) /\ (d \in caught \/ InOrder(d))

ResetInv == ResetTypes /\ SpawnerOwn /\ \A d \in DocId : DocInv(d)

\* Nobody gets d or gives it away.
Unmoved(d) ==
    /\ SlotsOf(d)' = SlotsOf(d) /\ UNCHANGED g_doc_id_counter
    /\ \A u \in User : InPassage(u, d)' <=> InPassage(u, d)
    /\ \A u \in User : sandbox_has(u, d)' <=> sandbox_has(u, d)
    /\ WithSpawner(d)' <=> WithSpawner(d)

LEMMA UnmovedKeeps ==
    ASSUME NEW d, Unmoved(d)
    PROVE  /\ Sole(d)' <=> Sole(d)
           /\ Fresh(d)' <=> Fresh(d)
           /\ Nowhere(d)' <=> Nowhere(d)
<1>1. Sole(d)' <=> Sole(d)
  BY DEF Unmoved, Sole
<1>2. Fresh(d)' <=> Fresh(d)
  BY DEF Unmoved, Fresh
<1>3. Nowhere(d)' <=> Nowhere(d)
  BY DEF Unmoved, Nowhere
<1>4. QED
  BY <1>1, <1>2, <1>3

LEMMA UnmovedBy ==
    ASSUME BoardSame, ThreadsSame, UNCHANGED <<sandbox, g_doc_id_counter>>,
           ev' = ev \/ {ev.pc, ev'.pc} \subseteq {"idle", "leak_freeze", "leak_arm"},
           NEW d
    PROVE  Unmoved(d) /\ \A T : Shows(d, T)' => Shows(d, T)
<1>1. /\ SlotsOf(d)' = SlotsOf(d)
      /\ \A u \in User : InPassage(u, d)' <=> InPassage(u, d)
  BY SameSlots, SamePassage DEF ThreadsSame
<1>2. \A u \in User : sandbox_has(u, d)' <=> sandbox_has(u, d)
  BY DEF sandbox_has
<1>3. WithSpawner(d)' <=> WithSpawner(d)
  BY DEF WithSpawner
<1>4. ASSUME NEW T, Shows(d, T)'
      PROVE  Shows(d, T)
  <2>1. ASSUME NEW i \in SlotsOf(d)', g_market'[i].tags = T
        PROVE  Shows(d, T)
    BY <1>1, <2>1 DEF BoardSame, SameOffer, SlotsOf, Shows
  <2>2. ASSUME NEW u \in User, InPassage(u, d)', th'[u].slot.tags = T
        PROVE  Shows(d, T)
    <3>1. InPassage(u, d) /\ th'[u].slot = th[u].slot
      BY <1>1, <2>2 DEF ThreadsSame, ThreadSame, InPassage, Passes, Passing
    <3>2. QED
      BY <2>2, <3>1 DEF Shows
  <2>3. ASSUME ev'.pc = "spawn_add", ev'.doc_id = d, ev'.tags = T
        PROVE  Shows(d, T)
    BY <2>3 DEF Shows
  <2>4. QED
    BY <1>4, <2>1, <2>2, <2>3 DEF Shows
<1>5. QED
  BY <1>1, <1>2, <1>3, <1>4 DEF Unmoved

\* A step after which nothing is shown that was not shown before, over a file that stays.
LEMMA BackedOn ==
    ASSUME NEW d, DocBacked(d), FileKept(d), \A T : Shows(d, T)' => Shows(d, T)
    PROVE  DocBacked(d)'
<1>1. ASSUME NEW T \in SUBSET Tag, Shows(d, T)'
      PROVE  Backed(d, T)'
  <2>1. WillBack(d, T)
    BY <1>1, BackedStays DEF DocBacked
  <2>2. QED
    BY <2>1 DEF WillBack, Backed
<1>2. QED
  BY <1>1 DEF DocBacked

LEMMA NothingShown ==
    ASSUME NEW d, Nowhere(d)
    PROVE  \A T : ~ Shows(d, T)
BY DEF Nowhere, Shows, WithSpawner

\* Leaks and timers, and the steps of the reset that pass over the documents.
LEMMA StillDoc ==
    ASSUME Still, UNCHANGED caught, NEW d, DocInv(d), Clearing' <=> Clearing,
           \A u \in User : Swept(u)' => Swept(u),
           ToSeed(d)' => ToSeed(d), rs'.pc = "seed_add" => rs' = rs
    PROVE  DocInv(d)'
<1>1. Unmoved(d) /\ (\A T : Shows(d, T)' => Shows(d, T)) /\ UNCHANGED master
  BY UnmovedBy DEF Still
<1>2. SweptAway(d)'
  BY <1>1 DEF Still, DocInv, SweptAway, IsSeed, Unmoved
<1>3. ASSUME InOrder(d)
      PROVE  InOrder(d)'
  <2>1. Sole(d)' /\ Fresh(d)' /\ (ToSeed(d)' => Nowhere(d)')
    BY <1>1, <1>3, UnmovedKeeps DEF InOrder
  <2>2. ~ Clearing' => DocBacked(d)'
    BY <1>1, <1>3, BackedOn DEF InOrder, FileKept
  <2>3. (rs.pc = "seed_add" /\ SeedDocs[rs.n].doc_id = d => Backed(d, SeedDocs[rs.n].tags))'
    BY <1>1, <1>3 DEF InOrder, Backed
  <2>4. QED
    BY <2>1, <2>2, <2>3 DEF InOrder
<1>4. QED
  BY <1>2, <1>3 DEF DocInv

\* Trading.

LEMMA SpawnerStep ==
    ASSUME ResetTypes, SpawnerOwn, Kinds
    PROVE  SpawnerOwn'
<1>1. g_doc_id_counter \in Nat /\ SPAWN_LIMIT \in Nat
  BY TradeAssumption DEF ResetTypes, TypesWith
<1>2. CASE Chooses
  BY <1>1, <1>2 DEF Chooses, SpawnerOwn
<1>3. CASE Writes
  BY <1>3 DEF Writes, SpawnerOwn
<1>4. CASE Lists \/ HandsBack \/ (\E S : Ages(S)) \/ \E d : Removes(d)
  BY <1>4 DEF Lists, HandsBack, Ages, Removes, SpawnerOwn
<1>5. CASE Quiet \/ \E u \in User : (\E i : Takes(u, i)) \/ Moves(u) \/ Relists(u) \/ Loses(u)
  BY <1>5 DEF Quiet, Takes, Moves, Relists, Loses, SpawnerOwn
<1>6. QED
  BY <1>2, <1>3, <1>4, <1>5 DEF Kinds

\* Trading gets nobody a document that is nowhere, and does not touch its file, unless
\* the spawner makes it.
LEMMA NowhereStays ==
    ASSUME ResetTypes, SpawnerOwn, Kinds, NEW d, Nowhere(d), d \notin 1 .. SPAWN_LIMIT
    PROVE  Nowhere(d)' /\ FileKept(d)
<1>1. g_doc_id_counter \in Nat /\ SPAWN_LIMIT \in Nat
  BY TradeAssumption DEF ResetTypes, TypesWith
<1>2. CASE Quiet
  <2>1. /\ SlotsOf(d)' = {} /\ FileKept(d)
        /\ \A u \in User : ~ InPassage(u, d)' /\ ~ sandbox_has(u, d)'
    BY <1>2, SameSlots, SamePassage, FolderShrinks DEF Quiet, ThreadsSame, Nowhere, FileKept
  <2>2. ~ WithSpawner(d)'
    BY <1>2 DEF Quiet, WithSpawner, Nowhere
  <2>3. QED
    BY <2>1, <2>2 DEF Nowhere
<1>3. ASSUME NEW u \in User, (\E i : Takes(u, i)) \/ Moves(u) \/ Relists(u) \/ Loses(u)
      PROVE  Nowhere(d)' /\ FileKept(d)
  <2>1. /\ ~ WithSpawner(d)' /\ \A v \in User \ {u} : ~ InPassage(v, d)'
    BY <1>3, SamePassage DEF Takes, Moves, Relists, Loses, WithSpawner, OthersSame, Nowhere
  <2>2. ASSUME NEW i, Takes(u, i)
        PROVE  /\ SlotsOf(d)' = {} /\ ~ InPassage(u, d)' /\ FileKept(d)
               /\ \A v \in User : ~ sandbox_has(v, d)'
    <3>1. SlotsOf(d)' = {} /\ \A v \in User : ~ sandbox_has(v, d)'
      BY <2>2, LessSlots, FolderShrinks DEF Takes, Nowhere
    <3>2. ~ InPassage(u, d)' /\ FileKept(d)
      BY <2>2 DEF Takes, Nowhere, SlotsOf, InPassage, FileKept
    <3>3. QED
      BY <3>1, <3>2
  <2>3. ASSUME Moves(u) \/ Loses(u) \/ Relists(u)
        PROVE  ~ InPassage(u, d)' /\ FileKept(d) /\ d # th[u].slot.doc_id
    BY <2>3 DEF Moves, Loses, Relists, InPassage, Passes, Passing, Nowhere, MasterLess, FileKept
  <2>4. CASE Moves(u)
    <3>1. SlotsOf(d)' = {} /\ \A v \in User : ~ sandbox_has(v, d)'
      BY <2>3, <2>4, SameSlots DEF Moves, Nowhere, sandbox_has
    <3>2. QED
      BY <2>1, <2>3, <2>4, <3>1 DEF Nowhere
  <2>5. CASE Loses(u)
    <3>1. SlotsOf(d)' = {} /\ \A v \in User : ~ sandbox_has(v, d)'
      BY <2>5, SameSlots, FolderShrinks DEF Loses, Nowhere
    <3>2. QED
      BY <2>1, <2>3, <2>5, <3>1 DEF Nowhere
  <2>6. CASE Relists(u)
    <3>1. PICK c, T, p : c = th[u].slot.doc_id /\ BoardMore(c, T, p)
      BY <2>6 DEF Relists
    <3>2. SlotsOf(d)' = SlotsOf(d)
      BY <2>3, <2>6, <3>1, MoreSlots
    <3>3. \A v \in User : ~ sandbox_has(v, d)'
      BY <2>6, FolderShrinks DEF Relists, Nowhere
    <3>4. QED
      BY <2>1, <2>3, <2>6, <3>2, <3>3 DEF Nowhere
  <2>7. QED
    BY <1>3, <2>1, <2>2, <2>4, <2>5, <2>6 DEF Nowhere
<1>4. ASSUME EventOnly
      PROVE  \A u \in User : ~ InPassage(u, d)' /\ ~ sandbox_has(u, d)'
  BY <1>4, SamePassage, FolderShrinks DEF EventOnly, ThreadsSame, Nowhere
<1>5. CASE Chooses
  <2>1. SlotsOf(d)' = {} /\ FileKept(d)
    BY <1>5, SameSlots DEF Chooses, Nowhere, FileKept
  <2>2. ~ WithSpawner(d)'
    BY <1>1, <1>5 DEF Chooses, WithSpawner
  <2>3. QED
    BY <1>4, <1>5, <2>1, <2>2 DEF Nowhere, Chooses
<1>6. CASE Writes
  <2>1. d # ev.doc_id
    BY <1>6 DEF Writes, SpawnerOwn
  <2>2. SlotsOf(d)' = {} /\ FileKept(d) /\ ~ WithSpawner(d)'
    BY <1>6, <2>1, SameSlots DEF Writes, Nowhere, FileKept, WithSpawner
  <2>3. QED
    BY <1>4, <1>6, <2>2 DEF Nowhere, Writes
<1>7. CASE Lists
  <2>1. d # ev.doc_id
    BY <1>7 DEF Lists, SpawnerOwn
  <2>2. PICK c, T, p : c = ev.doc_id /\ BoardMore(c, T, p)
    BY <1>7 DEF Lists
  <2>3. SlotsOf(d)' = SlotsOf(d)
    BY <2>1, <2>2, MoreSlots
  <2>4. FileKept(d) /\ ~ WithSpawner(d)'
    BY <1>7 DEF Lists, FileKept, WithSpawner
  <2>5. QED
    BY <1>4, <1>7, <2>3, <2>4 DEF Nowhere, Lists
<1>8. CASE HandsBack
  <2>1. d # ev.doc_id
    BY <1>8 DEF HandsBack, SpawnerOwn
  <2>2. SlotsOf(d)' = {} /\ FileKept(d) /\ ~ WithSpawner(d)'
    BY <1>8, <2>1, SameSlots DEF HandsBack, Nowhere, FileKept, WithSpawner
  <2>3. QED
    BY <1>4, <1>8, <2>2 DEF Nowhere, HandsBack
<1>9. ASSUME NEW S, Ages(S)
      PROVE  Nowhere(d)' /\ FileKept(d)
  <2>1. SlotsOf(d)' = {}
    BY <1>9, LessSlots DEF Ages, Nowhere
  <2>2. FileKept(d) /\ ~ WithSpawner(d)'
    BY <1>9 DEF Ages, Nowhere, FileKept, WithSpawner, SlotsOf
  <2>3. QED
    BY <1>4, <1>9, <2>1, <2>2 DEF Nowhere, Ages
<1>10. ASSUME NEW e, Removes(e)
       PROVE  Nowhere(d)' /\ FileKept(d)
  <2>1. d # e
    BY <1>10 DEF Removes, WithSpawner, Nowhere
  <2>2. SlotsOf(d)' = {} /\ FileKept(d) /\ ~ WithSpawner(d)'
    BY <1>10, <2>1, SameSlots DEF Removes, Nowhere, FileKept, WithSpawner, MasterLess
  <2>3. QED
    BY <1>4, <1>10, <2>2 DEF Nowhere, Removes
<1>11. QED
  BY <1>2, <1>3, <1>5, <1>6, <1>7, <1>8, <1>9, <1>10 DEF Kinds

LEMMA SweptStep ==
    ASSUME SeedsApart, SpawnerOwn, Kinds, UNCHANGED rs, NEW d, SweptAway(d)
    PROVE  SweptAway(d)'
<1>1. SUFFICES ASSUME IsSeed(d), Clearing
               PROVE  /\ d \notin DOMAIN master'
                      /\ \A u \in User : Swept(u) => ~ sandbox_has(u, d)'
  BY DEF SweptAway, IsSeed, Clearing, Swept
<1>2. d \notin DOMAIN master /\ d \notin 1 .. SPAWN_LIMIT
  BY <1>1 DEF SweptAway, IsSeed, SeedsApart
<1>3. Writes => d # ev.doc_id
  BY <1>2 DEF Writes, SpawnerOwn
<1>4. d \notin DOMAIN master'
  BY <1>2, <1>3 DEF Kinds, Quiet, Takes, Moves, Relists, Loses, Chooses, Writes, Lists,
                    HandsBack, Ages, Removes, MasterLess
<1>5. ASSUME NEW u \in User, sandbox_has(u, d)'
      PROVE  sandbox_has(u, d)
  <2>1. CASE FoldersLess
    BY <1>5, <2>1, FolderShrinks
  <2>2. ASSUME NEW v \in User, Moves(v)
        PROVE  sandbox_has(u, d)
    BY <1>2, <1>5, <2>2 DEF Moves, sandbox_has
  <2>3. QED
    BY <2>1, <2>2 DEF Kinds, Quiet, Takes, Relists, Loses, Chooses, Writes, Lists, HandsBack,
                      Ages, Removes, EventOnly
<1>6. QED
  BY <1>1, <1>4, <1>5 DEF SweptAway

LEMMA TradingDoc ==
    ASSUME SeedsApart, ResetTypes, SpawnerOwn, Kinds, ResetStays, NEW d, DocInv(d)
    PROVE  DocInv(d)'
<1>1. UNCHANGED <<rs, caught>> /\ g_doc_id_counter \in Nat
  BY DEF ResetStays, ResetTypes, TypesWith
<1>2. SweptAway(d)'
  BY <1>1, SweptStep DEF DocInv
<1>3. ASSUME InOrder(d)
      PROVE  InOrder(d)'
  <2>1. Sole(d)' /\ Fresh(d)'
    BY <1>1, <1>3, CustodyStep DEF InOrder
  <2>2. ~ Clearing' => DocBacked(d)'
    BY <1>1, <1>3, BackedStep DEF InOrder, Clearing
  <2>3. ASSUME ToSeed(d)
        PROVE  Nowhere(d)' /\ FileKept(d)
    <3>1. d \notin 1 .. SPAWN_LIMIT
      BY <2>3 DEF ToSeed, SeedsApart
    <3>2. QED
      BY <1>3, <2>3, <3>1, NowhereStays DEF InOrder
  <2>4. ToSeed(d)' => ToSeed(d)
    BY <1>1 DEF ToSeed
  <2>5. ASSUME rs.pc = "seed_add", SeedDocs[rs.n].doc_id = d
        PROVE  Backed(d, SeedDocs[rs.n].tags)'
    <3>1. rs.n \in DOMAIN SeedDocs /\ rs.n \in Nat
      <4>1. rs.n \in Nat \ {0} /\ rs.n <= Len(SeedDocs)
        BY <2>5, PlaceGoes DEF ResetTypes, ResetPlace, SeedPlaces
      <4>2. QED
        BY <4>1, SeedsTyped
    <3>2. ToSeed(d)
      BY <2>5, <3>1 DEF ToSeed
    <3>3. WillBack(d, SeedDocs[rs.n].tags)
      BY <1>3, <2>3, <2>5, <3>2, BackedStays DEF InOrder
    <3>4. QED
      BY <1>1, <3>3 DEF WillBack, Backed
  <2>6. QED
    BY <1>1, <2>1, <2>2, <2>3, <2>4, <2>5 DEF InOrder
<1>4. QED
  BY <1>1, <1>2, <1>3 DEF DocInv

-----------------------------------------------------------------------------
\* What the reset does to one document.

LEMMA MasterDoc ==
    ASSUME ResetTypes, ResetMaster, NEW d, DocInv(d)
    PROVE  DocInv(d)'
<1>1. /\ Aside /\ ThreadsSame /\ BoardSame /\ UNCHANGED <<sandbox, caught>>
      /\ DOMAIN master' = {} /\ rs'.pc = "sandboxes" /\ rs'.todo = User
  BY MasterKind
<1>2. Unmoved(d)
  BY <1>1, UnmovedBy DEF Aside
<1>3. SweptAway(d)'
  BY <1>1 DEF SweptAway, Swept
<1>4. InOrder(d) => InOrder(d)'
  BY <1>1, <1>2, UnmovedKeeps DEF InOrder, Clearing, ToSeed
<1>5. QED
  BY <1>1, <1>3, <1>4 DEF DocInv

LEMMA SandboxDoc ==
    ASSUME ResetTypes, NEW u \in User, ResetSandbox(u), NEW d, DocInv(d)
    PROVE  DocInv(d)'
<1>1. /\ Aside /\ ThreadsSame /\ BoardSame /\ UNCHANGED <<master, caught>>
      /\ DOMAIN sandbox'[u] = {} /\ \A v \in User : v # u => sandbox'[v] = sandbox[v]
      /\ rs.pc = "sandboxes" /\ rs'.pc = "sandboxes" /\ rs'.todo = rs.todo \ {u}
  BY SandboxKind
<1>2. ~ sandbox_has(u, d)' /\ \A v \in User : sandbox_has(v, d)' => sandbox_has(v, d)
  BY <1>1 DEF sandbox_has
<1>3. SweptAway(d)'
  <2>1. \A v \in User : Swept(v)' => v = u \/ Swept(v)
    BY <1>1 DEF Swept
  <2>2. QED
    BY <1>1, <1>2, <2>1 DEF DocInv, SweptAway, IsSeed, Clearing
<1>4. Shrinks(d)
  <2>1. SlotsOf(d)' = SlotsOf(d) /\ \A v \in User : InPassage(v, d)' <=> InPassage(v, d)
    BY <1>1, SameSlots, SamePassage DEF ThreadsSame
  <2>2. WithSpawner(d)' <=> WithSpawner(d)
    BY <1>1 DEF Aside, WithSpawner
  <2>3. QED
    BY <1>2, <2>1, <2>2 DEF Shrinks
<1>5. ASSUME InOrder(d)
      PROVE  InOrder(d)'
  <2>1. Sole(d)' /\ Fresh(d)'
    BY <1>1, <1>4, <1>5, ShrinkKeeps, TradeAssumption DEF InOrder, Aside, ResetTypes, TypesWith
  <2>2. QED
    BY <1>1, <2>1 DEF InOrder, Clearing, ToSeed
<1>6. QED
  BY <1>1, <1>3, <1>5 DEF DocInv

\* What nobody has in hand goes with the board; the rest is caught.
LEMMA BoardDoc ==
    ASSUME ResetTypes, ResetBoard, NEW d \in DocId, DocInv(d)
    PROVE  DocInv(d)'
<1>1. /\ Aside /\ ThreadsSame /\ UNCHANGED <<master, sandbox>>
      /\ DOMAIN g_market' = {} /\ caught' = caught \cup InHand
      /\ rs.pc = "board" /\ rs'.pc = "npcs"
  BY BoardKind
<1>2. SweptAway(d)'
  BY <1>1 DEF SweptAway, Clearing, Swept
<1>3. SUFFICES ASSUME d \notin caught'
               PROVE  InOrder(d)'
  BY <1>2 DEF DocInv
<1>4. InOrder(d) /\ ~ WithSpawner(d) /\ \A u \in User : ~ InPassage(u, d)
  BY <1>1, <1>3 DEF DocInv, InHand
<1>5. /\ SlotsOf(d)' = {} /\ ~ WithSpawner(d)'
      /\ \A u \in User : ~ InPassage(u, d)' /\ (sandbox_has(u, d)' <=> sandbox_has(u, d))
  <2>1. SlotsOf(d)' = {}
    BY <1>1 DEF SlotsOf
  <2>2. ~ WithSpawner(d)'
    BY <1>1, <1>4 DEF Aside, WithSpawner
  <2>3. \A u \in User : ~ InPassage(u, d)' /\ (sandbox_has(u, d)' <=> sandbox_has(u, d))
    BY <1>1, <1>4 DEF Aside, InPassage, sandbox_has
  <2>4. QED
    BY <2>1, <2>2, <2>3
<1>6. Sole(d)' /\ Fresh(d)'
  <2>1. Shrinks(d)
    BY <1>5 DEF Shrinks
  <2>2. QED
    BY <1>1, <1>4, <2>1, ShrinkKeeps, TradeAssumption DEF InOrder, Aside, ResetTypes, TypesWith
<1>7. DocBacked(d)'
  BY <1>5 DEF DocBacked, Shows, WithSpawner
<1>8. ASSUME ToSeed(d)'
      PROVE  Nowhere(d)'
  <2>1. IsSeed(d)
    BY <1>8 DEF ToSeed, IsSeed
  <2>2. \A u \in User : ~ sandbox_has(u, d)
    BY <1>1, <2>1 DEF DocInv, SweptAway, Swept
  <2>3. QED
    BY <1>5, <2>2 DEF Nowhere
<1>9. QED
  BY <1>1, <1>6, <1>7, <1>8 DEF InOrder

\* The seed at hand is due.
LEMMA AtHandToSeed ==
    ASSUME rs.pc \in {"seed_write", "seed_add"}, rs.n \in DOMAIN SeedDocs, rs.n \in Nat
    PROVE  ToSeed(SeedDocs[rs.n].doc_id)
BY DEF ToSeed

\* The file of a seed is written while the seed is nowhere.
LEMMA SeedWriteDoc ==
    ASSUME ResetTypes, SeedWrite, NEW d, DocInv(d)
    PROVE  DocInv(d)'
<1>1. /\ Aside /\ ThreadsSame /\ BoardSame /\ UNCHANGED <<sandbox, caught>>
      /\ rs.n \in DOMAIN SeedDocs /\ rs.pc = "seed_write"
      /\ rs'.pc = "seed_add" /\ rs'.n = rs.n
      /\ DOMAIN master' = DOMAIN master \cup {SeedDocs[rs.n].doc_id}
      /\ master'[SeedDocs[rs.n].doc_id] = SeedDocs[rs.n].tags
      /\ \A e \in DOMAIN master \ {SeedDocs[rs.n].doc_id} : master'[e] = master[e]
  BY SeedWriteKind
<1>2. Unmoved(d) /\ \A T : Shows(d, T)' => Shows(d, T)
  BY <1>1, UnmovedBy DEF Aside
<1>3. SweptAway(d)'
  BY <1>1 DEF SweptAway, Clearing, Swept
<1>4. ASSUME InOrder(d)
      PROVE  InOrder(d)'
  <2>1. ToSeed(d)' <=> ToSeed(d)
    BY <1>1 DEF ToSeed
  <2>2. Sole(d)' /\ Fresh(d)' /\ (ToSeed(d)' => Nowhere(d)')
    BY <1>2, <1>4, <2>1, UnmovedKeeps DEF InOrder
  <2>3. DocBacked(d)'
    <3>1. CASE d = SeedDocs[rs.n].doc_id
      <4>1. ToSeed(d)
        BY <1>1, <3>1, SeedAtHand, AtHandToSeed
      <4>2. \A T : ~ Shows(d, T)
        BY <1>4, <4>1, NothingShown DEF InOrder
      <4>3. QED
        BY <1>2, <4>2 DEF DocBacked
    <3>2. CASE d # SeedDocs[rs.n].doc_id
      <4>1. FileKept(d)
        BY <1>1, <3>2 DEF FileKept
      <4>2. DocBacked(d)
        BY <1>1, <1>4 DEF InOrder, Clearing
      <4>3. QED
        BY <1>2, <4>1, <4>2, BackedOn
    <3>3. QED
      BY <3>1, <3>2
  <2>4. (SeedDocs[rs.n].doc_id = d => Backed(d, SeedDocs[rs.n].tags))'
    BY <1>1 DEF Backed
  <2>5. QED
    BY <2>2, <2>3, <2>4 DEF InOrder
<1>5. QED
  BY <1>1, <1>3, <1>4 DEF DocInv

\* A seed that is listed was nowhere, and has its file; it is not due again.
LEMMA SeedAddDoc ==
    ASSUME SeedsApart, ResetTypes, SeedAdd, NEW d, DocInv(d)
    PROVE  DocInv(d)'
<1>1. /\ Aside /\ ThreadsSame /\ UNCHANGED <<master, sandbox, caught>>
      /\ \/ BoardSame
         \/ BoardMore(SeedDocs[rs.n].doc_id, SeedDocs[rs.n].tags, SeedDocs[rs.n].base_price)
      /\ rs.n \in DOMAIN SeedDocs /\ rs.n \in Nat /\ rs.pc = "seed_add"
      /\ rs'.pc = "seed_write" /\ rs'.n = rs.n + 1
  BY SeedAddKind
<1>2. SweptAway(d)'
  BY <1>1 DEF SweptAway, Clearing, Swept
<1>3. FileKept(d) /\ UNCHANGED g_doc_id_counter
  BY <1>1 DEF FileKept, Aside
<1>4. ASSUME NEW k \in DOMAIN SeedDocs, rs.n + 1 <= k
      PROVE  rs.n <= k /\ rs.n # k
  <2>1. k \in Nat
    BY SeedsTyped
  <2>2. QED
    BY <1>1, <1>4, <2>1
<1>5. /\ ToSeed(d)' => ToSeed(d)
      /\ d = SeedDocs[rs.n].doc_id => ~ ToSeed(d)'
  <2>1. ASSUME ToSeed(d)'
        PROVE  ToSeed(d) /\ d # SeedDocs[rs.n].doc_id
    <3>1. PICK k \in DOMAIN SeedDocs : SeedDocs[k].doc_id = d /\ rs.n + 1 <= k
      BY <1>1, <2>1 DEF ToSeed
    <3>2. rs.n <= k /\ rs.n # k
      BY <1>4, <3>1
    <3>3. QED
      BY <1>1, <3>1, <3>2 DEF ToSeed, SeedsApart
  <2>2. QED
    BY <2>1
<1>6. ASSUME InOrder(d)
      PROVE  Sole(d)' /\ Fresh(d)' /\ DocBacked(d)' /\ (ToSeed(d)' => Nowhere(d)')
  <2>1. DocBacked(d)
    BY <1>1, <1>6 DEF InOrder, Clearing
  <2>2. CASE BoardSame
    <3>1. Unmoved(d) /\ \A T : Shows(d, T)' => Shows(d, T)
      BY <1>1, <2>2, UnmovedBy DEF Aside
    <3>2. QED
      BY <1>3, <1>5, <1>6, <2>1, <3>1, UnmovedKeeps, BackedOn DEF InOrder
  <2>3. CASE BoardMore(SeedDocs[rs.n].doc_id, SeedDocs[rs.n].tags, SeedDocs[rs.n].base_price)
    <3>1. PICK c, W, p : c = SeedDocs[rs.n].doc_id /\ W = SeedDocs[rs.n].tags /\ BoardMore(c, W, p)
      BY <2>3
    <3>2. /\ \A u \in User : InPassage(u, d)' <=> InPassage(u, d)
          /\ \A u \in User : sandbox_has(u, d)' <=> sandbox_has(u, d)
          /\ WithSpawner(d)' <=> WithSpawner(d)
      BY <1>1 DEF Aside, InPassage, sandbox_has, WithSpawner
    <3>3. ASSUME NEW T, Shows(d, T)'
          PROVE  Shows(d, T) \/ (d = c /\ T = W)
      <4>1. ASSUME NEW i \in SlotsOf(d)', g_market'[i].tags = T
            PROVE  (\E j \in SlotsOf(d) : g_market[j].tags = T) \/ (d = c /\ T = W)
        BY <3>1, <4>1 DEF BoardMore, SameOffer, SlotsOf
      <4>2. QED
        BY <1>1, <3>2, <3>3, <4>1 DEF Shows, Aside
    <3>4. CASE d = c
      <4>1. Nowhere(d) /\ Backed(d, W)
        BY <1>1, <1>6, <3>1, <3>4, AtHandToSeed DEF InOrder
      <4>2. PICK j : SlotsOf(d)' = SlotsOf(d) \cup {j}
        BY <3>1, <3>4, MoreSlots
      <4>3. Sole(d)'
        <5>1. /\ SlotsOf(d)' = {j} /\ ~ WithSpawner(d)'
              /\ \A u \in User : ~ InPassage(u, d)' /\ ~ sandbox_has(u, d)'
          BY <3>2, <4>1, <4>2 DEF Nowhere
        <5>2. QED
          BY <5>1 DEF Sole
      <4>4. Fresh(d)'
        <5>1. d \notin 1 .. SPAWN_LIMIT
          BY <1>1, <3>1, <3>4 DEF SeedsApart
        <5>2. g_doc_id_counter' \in Nat /\ SPAWN_LIMIT \in Nat
          BY <1>3, TradeAssumption DEF ResetTypes, TypesWith
        <5>3. d \notin (g_doc_id_counter' + 1) .. SPAWN_LIMIT
          BY <5>1, <5>2
        <5>4. QED
          BY <5>3 DEF Fresh
      <4>5. DocBacked(d)'
        <5>1. ASSUME NEW T \in SUBSET Tag, Shows(d, T)'
              PROVE  Backed(d, T)'
          <6>1. T = W
            BY <3>3, <4>1, <5>1, NothingShown
          <6>2. QED
            BY <1>1, <4>1, <6>1 DEF Backed
        <5>2. QED
          BY <5>1 DEF DocBacked
      <4>6. QED
        BY <1>5, <3>1, <3>4, <4>3, <4>4, <4>5
    <3>5. CASE d # c
      <4>1. Unmoved(d)
        BY <1>3, <3>1, <3>2, <3>5, MoreSlots DEF Unmoved
      <4>2. DocBacked(d)'
        BY <1>3, <2>1, <3>3, <3>5, BackedOn
      <4>3. QED
        BY <1>5, <1>6, <4>1, <4>2, UnmovedKeeps DEF InOrder
    <3>6. QED
      BY <3>4, <3>5
  <2>4. QED
    BY <1>1, <2>2, <2>3
<1>7. InOrder(d) => InOrder(d)'
  BY <1>1, <1>6 DEF InOrder
<1>8. QED
  BY <1>1, <1>2, <1>7 DEF DocInv

-----------------------------------------------------------------------------
\* The theorems.

LEMMA ResetInvStart ==
    ASSUME SeedsApart, ResetInit
    PROVE  ResetInv
<1>1. ResetTypes /\ CustodyInv /\ rs.pc = "idle" /\ ev.pc = "idle"
  BY ResetStart, CustodyStart DEF ResetInit, TradeInit
<1>2. SpawnerOwn
  BY <1>1 DEF SpawnerOwn
<1>3. ASSUME NEW d \in DocId
      PROVE  DocInv(d)
  BY <1>1 DEF CustodyInv, DocInv, SweptAway, InOrder, Clearing, Swept, ToSeed
<1>4. QED
  BY <1>1, <1>2, <1>3 DEF ResetInv

LEMMA ResetInvStep ==
    ASSUME SeedsApart, ResetInv, [ResetNext]_zvars
    PROVE  ResetInv'
<1>1. ResetTypes /\ SpawnerOwn /\ \A d \in DocId : DocInv(d)
  BY DEF ResetInv
<1>2. ResetTypes'
  BY <1>1, ResetTypesStep
<1>3. CASE Trading
  <2>1. Kinds /\ ResetStays
    BY <1>1, <1>3, TradingKind
  <2>2. SpawnerOwn' /\ \A d \in DocId : DocInv(d)'
    BY <1>1, <2>1, SpawnerStep, TradingDoc
  <2>3. QED
    BY <1>2, <2>2 DEF ResetInv
<1>4. CASE Leaking \/ UNCHANGED zvars
  <2>1. Still /\ UNCHANGED <<rs, caught>>
    BY <1>1, <1>4, LeakKind, ResetStutter DEF ResetStays
  <2>2. SpawnerOwn'
    BY <1>1, <2>1 DEF Still, SpawnerOwn
  <2>3. ASSUME NEW d \in DocId
        PROVE  DocInv(d)'
    <3>1. /\ (Clearing' <=> Clearing) /\ (ToSeed(d)' => ToSeed(d))
          /\ \A u \in User : Swept(u)' => Swept(u)
      BY <2>1 DEF Clearing, Swept, ToSeed
    <3>2. QED
      BY <1>1, <2>1, <3>1, StillDoc
  <2>4. QED
    BY <1>2, <2>2, <2>3 DEF ResetInv
<1>5. CASE Resetting
  <2>1. SpawnerOwn'
    BY <1>1, <1>5, ResetAside DEF Aside, SpawnerOwn
  <2>2. ASSUME NEW d \in DocId
        PROVE  DocInv(d)'
    <3>1. CASE ResetUsers \/ ResetNpcs \/ SeedNpcsBegin \/ SeedNpc \/ ResetDone
      <4>1. Passed
        BY <1>1, <3>1, PassKind
      <4>2. QED
        BY <1>1, <4>1, StillDoc DEF Passed
    <3>2. CASE \/ ResetMaster \/ (\E u \in User : ResetSandbox(u)) \/ ResetBoard
               \/ SeedWrite \/ SeedAdd
      BY <1>1, <3>2, MasterDoc, SandboxDoc, BoardDoc, SeedWriteDoc, SeedAddDoc
    <3>3. QED
      BY <1>5, <3>1, <3>2 DEF Resetting
  <2>3. QED
    BY <1>2, <2>1, <2>2 DEF ResetInv
<1>6. QED
  BY <1>3, <1>4, <1>5 DEF ResetNext

LEMMA ResetInvariant ==
    ASSUME SeedsApart
    PROVE  ResetSpec => []ResetInv
<1>1. ResetInit => ResetInv
  BY ResetInvStart
<1>2. ResetInv /\ [ResetNext]_zvars => ResetInv'
  BY ResetInvStep
<1>3. QED
  BY <1>1, <1>2, PTL DEF ResetSpec

\* A reset that meets trades, spawns and aging sweeps at any point leaves no document in
\* two places, although it brings the seeds back with the ids they had, but for those
\* that a buyer or the event thread had in hand when it cleared the board.
THEOREM ResetKeepsCustody ==
    ASSUME SeedsApart
    PROVE  ResetSpec => []OnlyCaughtTwice
<1>1. ResetInv => OnlyCaughtTwice
  <2>1. SUFFICES ASSUME ResetInv, NEW d \in DocId, d \notin caught
                 PROVE  Cardinality(Custodians(d)) <= 1
    BY DEF OnlyCaughtTwice
  <2>2. Sole(d)
    BY <2>1 DEF ResetInv, DocInv, InOrder
  <2>3. QED
    BY <2>2, SoleIsOne
<1>2. QED
  BY <1>1, ResetInvariant, PTL

\* Once the reset has cleared the board, and until the next one, every offer can be
\* delivered: its file is in data/master with the tags shown, with the same exception.
THEOREM ResetKeepsFiles ==
    ASSUME SeedsApart
    PROVE  ResetSpec => []OnlyCaughtUnbacked
<1>1. ResetInv => OnlyCaughtUnbacked
  <2>1. SUFFICES ASSUME ResetInv, ~ Clearing, NEW i \in DOMAIN g_market,
                        g_market[i].doc_id \notin caught
                 PROVE  Backed(g_market[i].doc_id, g_market[i].tags)
    BY DEF OnlyCaughtUnbacked, Backed
  <2>2. g_market[i] \in MarketSlot
    BY <2>1, TableElim DEF ResetInv, ResetTypes, TypesWith, TypeOK
  <2>3. g_market[i].doc_id \in DocId /\ g_market[i].tags \in SUBSET Tag
    BY <2>2 DEF MarketSlot
  <2>4. Shows(g_market[i].doc_id, g_market[i].tags)
    BY DEF Shows, SlotsOf
  <2>5. DocBacked(g_market[i].doc_id)
    BY <2>1, <2>3 DEF ResetInv, DocInv, InOrder
  <2>6. QED
    BY <2>3, <2>4, <2>5 DEF DocBacked
<1>2. QED
  BY <1>1, ResetInvariant, PTL
=============================================================================
