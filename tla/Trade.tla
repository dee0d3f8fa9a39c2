------------------------------- MODULE Trade --------------------------------
(***************************************************************************)
(* Trading: the handler threads of src/src/server/server_main.c that serve *)
(* /buy, /sell and /dispose, the spawner of src/src/server/events.c, the   *)
(* files of src/src/server/sandbox.c and the money field of users.dat      *)
(* (src/userdb/userdb.c), around the board of Market.                      *)
(*                                                                         *)
(* A handler thread runs without a lock between its calls, so every call   *)
(* that touches shared state is one step, and what the thread keeps in its *)
(* local variables meanwhile is the record th[u].  Each user has one       *)
(* session (Sessions is about how that can fail) and sends a request only  *)
(* when the previous one is done, as the server reads them one at a time.  *)
(***************************************************************************)
EXTENDS Market, FiniteSets, Sequences

CONSTANTS
    User,             \* the keys that are logged in
    MAX_INVEN_SIZE,   \* 7 in protocol.h
    INITIAL_MONEY,    \* 1000 in protocol.h
    SeedDocs,         \* the offers of seed_market_and_npc, in order
    SeedNpcs,         \* its requests, in order
    SPAWN_LIMIT,      \* bound: documents the spawner makes
    NPC_LIMIT,        \* bound: requests the spawner makes
    RAID_LIMIT,       \* bound: accounts burned by raids
    DISK_FAULTS       \* bound: renames that fail

ASSUME TradeAssumption ==
    /\ IsFiniteSet(User)
    /\ MAX_INVEN_SIZE \in Nat \ {0}
    /\ INITIAL_MONEY \in Nat
    /\ {SPAWN_LIMIT, NPC_LIMIT, RAID_LIMIT, DISK_FAULTS} \subseteq Nat
    /\ Price \cup Bounty \subseteq Nat
    /\ 1 .. SPAWN_LIMIT \subseteq DocId
    /\ 1 .. NPC_LIMIT \subseteq NpcId
    /\ SeedDocs \in Seq([doc_id : DocId, tags : SUBSET Tag, base_price : Price])
    /\ SeedNpcs \in Seq(NPCSlot)
    /\ Len(SeedDocs) <= MAX_MARKET_SLOTS
    /\ Len(SeedNpcs) <= MAX_NPC_SLOTS

VARIABLES
    users_dat,          \* key -> money on record; -1 marks a burned account
    master,             \* data/master: doc_id -> the tags in the file
    sandbox,            \* data/users/<key>: key -> doc_id -> the tags in the file
    th,                 \* key -> the point its handler thread is at, with its locals
    ev,                 \* the same for the event thread
    raid,               \* the same for the thread that burns after a raid
    g_doc_id_counter,   \* the spawner's last doc_id
    g_npc_id_counter,   \* the spawner's last npc_id
    faults,             \* renames that have failed so far
    lost                \* (history) documents whose rollback found the board full

store    == <<users_dat, master, sandbox>>
counters == <<g_doc_id_counter, g_npc_id_counter, faults, lost>>
tvars    == <<vars, store, th, ev, raid, counters>>

BURNED == -1

-----------------------------------------------------------------------------
\* Start: seeded as main does, everybody logged in with the initial money.

TradeInit ==
    /\ g_market = [i \in 0 .. (Len(SeedDocs) - 1) |->
                      [doc_id |-> SeedDocs[i + 1].doc_id, tags |-> SeedDocs[i + 1].tags,
                       base_price |-> SeedDocs[i + 1].base_price, is_frozen |-> FALSE]]
    /\ g_npc = [i \in 0 .. (Len(SeedNpcs) - 1) |-> SeedNpcs[i + 1]]
    /\ g_frozen_tags = {}
    /\ users_dat = [u \in User |-> INITIAL_MONEY]
    /\ master = [d \in {SeedDocs[k].doc_id : k \in DOMAIN SeedDocs} |->
                    SeedDocs[CHOOSE k \in DOMAIN SeedDocs : SeedDocs[k].doc_id = d].tags]
    /\ sandbox = [u \in User |-> [d \in {} |-> {}]]
    /\ th = [u \in User |-> [pc |-> "ready"]]
    /\ ev = [pc |-> "idle"]
    /\ raid = [pc |-> "idle"]
    /\ g_doc_id_counter = 0
    /\ g_npc_id_counter = 0
    /\ faults = 0
    /\ lost = {}

-----------------------------------------------------------------------------
\* The files, and where a thread goes next.

sandbox_has(u, d) == d \in DOMAIN sandbox[u]
sandbox_count(u)  == Cardinality(DOMAIN sandbox[u])

\* rename(master/doc_d, users/u/doc_d); a file of that name in u's folder is lost.
sandbox_buy(u, d) ==
    /\ d \in DOMAIN master
    /\ sandbox' = [sandbox EXCEPT ![u] = Fill(@, d, master[d])]
    /\ master' = Vacate(master, {d})
    /\ UNCHANGED users_dat

sandbox_dispose(u, d) ==
    /\ sandbox' = [sandbox EXCEPT ![u] = Vacate(@, {d})]
    /\ UNCHANGED <<users_dat, master>>

\* Mutant: the folder cannot be opened, and the call says nothing.
sandbox_purge_nothing(u) == u \in User /\ UNCHANGED store

sandbox_purge_user(u) ==
    /\ sandbox' = [sandbox EXCEPT ![u] = Vacate(@, DOMAIN @)]
    /\ UNCHANGED <<users_dat, master>>

master_write_doc(d, tags) ==
    /\ master' = Fill(master, d, tags)
    /\ UNCHANGED <<users_dat, sandbox>>

master_remove_doc(d) ==
    /\ master' = Vacate(master, {d})
    /\ UNCHANGED <<users_dat, sandbox>>

userdb_update_at(u, money) ==
    /\ users_dat' = [users_dat EXCEPT ![u] = money]
    /\ UNCHANGED <<master, sandbox>>

userdb_burn_at(u) == userdb_update_at(u, BURNED)

At(u, pc)    == th[u].pc = pc
Goto(u, h)   == th' = [th EXCEPT ![u] = h]
Ready        == [pc |-> "ready"]
\* Every return of handle_buy leads to check_bankruptcy.
CheckBust    == [pc |-> "bust_money"]
OthersStay   == UNCHANGED <<ev, raid, counters>>

-----------------------------------------------------------------------------
\* handle_buy, then check_bankruptcy.

BuyFind(u, d) ==
    /\ At(u, "ready")
    /\ \/ \E i \in market_find(d) :
             /\ ~ g_market[i].is_frozen
             /\ Goto(u, [pc |-> "buy_count", doc_id |-> d,
                         base_price |-> g_market[i].base_price])
       \/ /\ \A i \in market_find(d) : g_market[i].is_frozen
          /\ Goto(u, CheckBust)
    /\ UNCHANGED <<vars, store>> /\ OthersStay

BuyCount(u) ==
    /\ At(u, "buy_count")
    /\ Goto(u, IF sandbox_count(u) >= MAX_INVEN_SIZE
               THEN CheckBust ELSE [th[u] EXCEPT !.pc = "buy_money"])
    /\ UNCHANGED <<vars, store>> /\ OthersStay

BuyMoney(u) ==
    /\ At(u, "buy_money")
    /\ Goto(u, IF users_dat[u] < th[u].base_price
               THEN CheckBust
               ELSE [pc |-> "buy_take", doc_id |-> th[u].doc_id, money |-> users_dat[u]])
    /\ UNCHANGED <<vars, store>> /\ OthersStay

\* market_take overwrites the local slot, and with it the price to pay.
BuyTake(u) ==
    /\ At(u, "buy_take")
    /\ \/ \E i \in market_find(th[u].doc_id) :
             /\ market_take(th[u].doc_id)
             /\ Goto(u, [pc |-> "buy_move", slot |-> Shown(g_market[i]),
                         money |-> th[u].money])
       \/ /\ \A i \in market_find(th[u].doc_id) : g_market[i].is_frozen
          /\ Goto(u, CheckBust)
          /\ UNCHANGED vars
    /\ UNCHANGED store /\ OthersStay

\* Mutant: an error after the rename (of chmod) is taken for a failed rename.
BuyMove_undoes_move(u) ==
    /\ At(u, "buy_move")
    /\ \/ /\ sandbox_buy(u, th[u].slot.doc_id)
          /\ Goto(u, [th[u] EXCEPT !.pc = "buy_undo"])
       \/ /\ th[u].slot.doc_id \notin DOMAIN master
          /\ Goto(u, [th[u] EXCEPT !.pc = "buy_undo"])
          /\ UNCHANGED store
    /\ UNCHANGED <<vars, ev, raid, counters>>

\* The master file may be missing, or the rename fail.
BuyMove(u) ==
    /\ At(u, "buy_move")
    /\ \/ /\ sandbox_buy(u, th[u].slot.doc_id)
          /\ Goto(u, [th[u] EXCEPT !.pc = "buy_pay"])
          /\ UNCHANGED faults
       \/ /\ th[u].slot.doc_id \notin DOMAIN master
          /\ Goto(u, [th[u] EXCEPT !.pc = "buy_undo"])
          /\ UNCHANGED <<store, faults>>
       \/ /\ th[u].slot.doc_id \in DOMAIN master
          /\ faults < DISK_FAULTS
          /\ faults' = faults + 1
          /\ Goto(u, [th[u] EXCEPT !.pc = "buy_undo"])
          /\ UNCHANGED store
    /\ UNCHANGED <<vars, ev, raid, g_doc_id_counter, g_npc_id_counter, lost>>

\* The result of market_add is not looked at: on a full board the offer is lost.
BuyUndo(u) ==
    /\ At(u, "buy_undo")
    /\ \/ /\ market_add(th[u].slot.doc_id, th[u].slot.tags, th[u].slot.base_price)
          /\ UNCHANGED lost
       \/ /\ market_is_full
          /\ lost' = lost \cup {th[u].slot.doc_id}
          /\ UNCHANGED vars
    /\ Goto(u, CheckBust)
    /\ UNCHANGED <<store, ev, raid, g_doc_id_counter, g_npc_id_counter, faults>>

BuyPay(u) ==
    /\ At(u, "buy_pay")
    /\ userdb_update_at(u, th[u].money - th[u].slot.base_price)
    /\ Goto(u, CheckBust)
    /\ UNCHANGED vars /\ OthersStay

BustMoney(u) ==
    /\ At(u, "bust_money")
    /\ Goto(u, IF users_dat[u] > 0 THEN Ready ELSE [pc |-> "bust_count"])
    /\ UNCHANGED <<vars, store>> /\ OthersStay

BustCount(u) ==
    /\ At(u, "bust_count")
    /\ Goto(u, IF sandbox_count(u) > 0 THEN Ready ELSE [pc |-> "bust_burn"])
    /\ UNCHANGED <<vars, store>> /\ OthersStay

\* The account is burned, and the handler disconnects.
BustBurn(u) ==
    /\ At(u, "bust_burn")
    /\ userdb_burn_at(u)
    /\ Goto(u, [pc |-> "gone"])
    /\ UNCHANGED vars /\ OthersStay

-----------------------------------------------------------------------------
\* handle_sell and handle_dispose.

\* ids: the documents offered; todo: those still to check, in ascending order.
SellFind(u, n, ids) ==
    /\ At(u, "ready")
    /\ Cardinality(ids) \in 1 .. MAX_INVEN_SIZE
    /\ \E i \in npc_find(n) :
          Goto(u, [pc |-> "sell_check", npc_id |-> n, ids |-> ids, todo |-> ids,
                   required_tags |-> g_npc[i].required_tags, tag_union |-> {}])
    /\ UNCHANGED <<vars, store>> /\ OthersStay

\* Mutant: is_tag_frozen is not asked.
SellCheck_ignores_freeze(u) ==
    /\ At(u, "sell_check")
    /\ \E d \in FirstOf(th[u].todo) :
          Goto(u, IF ~ sandbox_has(u, d) THEN Ready
                  ELSE [th[u] EXCEPT !.todo = @ \ {d},
                                     !.tag_union = @ \cup sandbox[u][d]])
    /\ UNCHANGED <<vars, store>> /\ OthersStay

SellCheck(u) ==
    /\ At(u, "sell_check")
    /\ \E d \in FirstOf(th[u].todo) :
          Goto(u, IF ~ sandbox_has(u, d) THEN Ready
                  ELSE IF is_tag_frozen(sandbox[u][d]) THEN Ready
                  ELSE [th[u] EXCEPT !.todo = @ \ {d},
                                     !.tag_union = @ \cup sandbox[u][d]])
    /\ UNCHANGED <<vars, store>> /\ OthersStay

\* Mutant: the result of npc_take is ignored, and the bounty of npc_find paid.
SellTake_ignores_rc(u) ==
    /\ At(u, "sell_check")
    /\ th[u].todo = {}
    /\ th[u].required_tags \subseteq th[u].tag_union
    /\ \E b \in Bounty :
          Goto(u, [pc |-> "sell_dispose", todo |-> th[u].ids, bounty |-> b])
    /\ IF npc_find(th[u].npc_id) = {} THEN UNCHANGED vars ELSE npc_take(th[u].npc_id)
    /\ UNCHANGED store /\ OthersStay

SellTake(u) ==
    /\ At(u, "sell_check")
    /\ th[u].todo = {}
    /\ \/ /\ th[u].required_tags \subseteq th[u].tag_union
          /\ \E i \in npc_find(th[u].npc_id) :
                Goto(u, [pc |-> "sell_dispose", todo |-> th[u].ids,
                         bounty |-> g_npc[i].bounty])
          /\ npc_take(th[u].npc_id)
       \/ /\ \/ ~ (th[u].required_tags \subseteq th[u].tag_union)
             \/ npc_find(th[u].npc_id) = {}
          /\ Goto(u, Ready)
          /\ UNCHANGED vars
    /\ UNCHANGED store /\ OthersStay

SellDispose(u) ==
    /\ At(u, "sell_dispose")
    /\ \E d \in FirstOf(th[u].todo) :
          /\ sandbox_dispose(u, d)
          /\ Goto(u, [th[u] EXCEPT !.todo = @ \ {d}])
    /\ UNCHANGED vars /\ OthersStay

SellMoney(u) ==
    /\ At(u, "sell_dispose")
    /\ th[u].todo = {}
    /\ Goto(u, [pc |-> "sell_pay", money |-> users_dat[u] + th[u].bounty])
    /\ UNCHANGED <<vars, store>> /\ OthersStay

SellPay(u) ==
    /\ At(u, "sell_pay")
    /\ userdb_update_at(u, th[u].money)
    /\ Goto(u, Ready)
    /\ UNCHANGED vars /\ OthersStay

handle_dispose(u, d) ==
    /\ At(u, "ready")
    /\ sandbox_has(u, d)
    /\ sandbox_dispose(u, d)
    /\ UNCHANGED <<vars, th>> /\ OthersStay

-----------------------------------------------------------------------------
\* The event thread (event_spawn_market, event_age_market, event_age_npcs), the
\* threads of event_do_npc_sequence, and freezes and thaws (fire_public_leak,
\* leak_recovery_thread), which may come at any time.

HandlersStay == UNCHANGED <<th, raid, faults, lost>>

\* Mutant: the offer is listed before its file is written.
SpawnChoose_lists_first(tags, price) ==
    /\ ev.pc = "idle"
    /\ g_doc_id_counter < SPAWN_LIMIT
    /\ ~ market_is_full
    /\ ~ is_tag_frozen(tags)
    /\ g_doc_id_counter' = g_doc_id_counter + 1
    /\ ev' = [pc |-> "spawn_add", doc_id |-> g_doc_id_counter', tags |-> tags,
              base_price |-> price]
    /\ UNCHANGED <<vars, store, g_npc_id_counter>> /\ HandlersStay

SpawnChoose(tags, price) ==
    /\ ev.pc = "idle"
    /\ g_doc_id_counter < SPAWN_LIMIT
    /\ ~ market_is_full
    /\ ~ is_tag_frozen(tags)
    /\ g_doc_id_counter' = g_doc_id_counter + 1
    /\ ev' = [pc |-> "spawn_write", doc_id |-> g_doc_id_counter', tags |-> tags,
              base_price |-> price]
    /\ UNCHANGED <<vars, store, g_npc_id_counter>> /\ HandlersStay

SpawnWrite ==
    /\ ev.pc = "spawn_write"
    /\ master_write_doc(ev.doc_id, ev.tags)
    /\ ev' = [ev EXCEPT !.pc = "spawn_add"]
    /\ UNCHANGED <<vars, g_doc_id_counter, g_npc_id_counter>> /\ HandlersStay

\* Mutant: the file stays when the board turns out to be full.
SpawnAdd_keeps_file ==
    /\ ev.pc = "spawn_add"
    /\ \/ market_add(ev.doc_id, ev.tags, ev.base_price)
       \/ market_is_full /\ UNCHANGED vars
    /\ ev' = [pc |-> "idle"]
    /\ UNCHANGED <<store, g_doc_id_counter, g_npc_id_counter>> /\ HandlersStay

SpawnAdd ==
    /\ ev.pc = "spawn_add"
    /\ \/ /\ market_add(ev.doc_id, ev.tags, ev.base_price)
          /\ ev' = [pc |-> "idle"]
       \/ /\ market_is_full
          /\ ev' = [pc |-> "remove", ids |-> {ev.doc_id}]
          /\ UNCHANGED vars
    /\ UNCHANGED <<store, g_doc_id_counter, g_npc_id_counter>> /\ HandlersStay

\* Mutant: the ids of the aged offers are not handed back.
AgeMarket_keeps_files(Aged) ==
    /\ ev.pc = "idle"
    /\ Aged # {}
    /\ market_despawn_aged(Aged)
    /\ UNCHANGED <<store, ev, g_doc_id_counter, g_npc_id_counter>> /\ HandlersStay

AgeMarket(Aged) ==
    /\ ev.pc = "idle"
    /\ Aged # {}
    /\ market_despawn_aged(Aged)
    /\ ev' = [pc |-> "remove", ids |-> {g_market[i].doc_id : i \in Aged}]
    /\ UNCHANGED <<store, g_doc_id_counter, g_npc_id_counter>> /\ HandlersStay

\* Mutant: only the first of the ids is looked at.
RemoveFile_first_only ==
    /\ ev.pc = "remove"
    /\ \E d \in FirstOf(ev.ids) : master_remove_doc(d)
    /\ ev' = [pc |-> "idle"]
    /\ UNCHANGED <<vars, g_doc_id_counter, g_npc_id_counter>> /\ HandlersStay

\* The files of unlisted documents go one after the other.
RemoveFile ==
    /\ ev.pc = "remove"
    /\ \E d \in ev.ids :
          /\ master_remove_doc(d)
          /\ ev' = IF ev.ids = {d} THEN [pc |-> "idle"] ELSE [ev EXCEPT !.ids = @ \ {d}]
    /\ UNCHANGED <<vars, g_doc_id_counter, g_npc_id_counter>> /\ HandlersStay

\* The tags were chosen eight seconds earlier, so the mask does not matter.  On a
\* board that has filled up since, only the counter moves.
NpcSpawn(required_tags, bounty) ==
    /\ g_npc_id_counter < NPC_LIMIT
    /\ g_npc_id_counter' = g_npc_id_counter + 1
    /\ \/ npc_add(g_npc_id_counter', required_tags, bounty)
       \/ npc_is_full /\ UNCHANGED vars
    /\ UNCHANGED <<store, ev, g_doc_id_counter>> /\ HandlersStay

AgeNpcs(Aged) ==
    /\ ev.pc = "idle"
    /\ Aged # {}
    /\ npc_despawn_aged(Aged)
    /\ UNCHANGED <<store, ev, g_doc_id_counter, g_npc_id_counter>> /\ HandlersStay

\* fire_public_leak picks from two earlier snapshots, so the tag may have left the
\* board since; freezing a tag that is frozen already would change nothing.
Leak(tag) ==
    /\ tag \notin g_frozen_tags
    /\ freeze_tags({tag})
    /\ UNCHANGED <<store, ev, g_doc_id_counter, g_npc_id_counter>> /\ HandlersStay

Recover(tag) ==
    /\ tag \in g_frozen_tags
    /\ unfreeze_tags({tag})
    /\ UNCHANGED <<store, ev, g_doc_id_counter, g_npc_id_counter>> /\ HandlersStay

-----------------------------------------------------------------------------
\* burn_user_by_key, called for whoever fails a raid while its handler may be
\* in the middle of a trade.

RaidBurn(u) ==
    /\ raid.pc = "idle"
    /\ Cardinality({v \in User : users_dat[v] = BURNED}) < RAID_LIMIT
    /\ userdb_burn_at(u)
    /\ raid' = [pc |-> "purge", key |-> u]
    /\ UNCHANGED <<vars, th, ev, counters>>

RaidPurge ==
    /\ raid.pc = "purge"
    /\ sandbox_purge_user(raid.key)
    /\ raid' = [pc |-> "idle"]
    /\ UNCHANGED <<vars, th, ev, counters>>

-----------------------------------------------------------------------------

Handler(u) ==
    \/ BuyCount(u) \/ BuyMoney(u) \/ BuyTake(u) \/ BuyMove(u) \/ BuyUndo(u) \/ BuyPay(u)
    \/ BustMoney(u) \/ BustCount(u) \/ BustBurn(u)
    \/ SellCheck(u) \/ SellTake(u) \/ SellDispose(u) \/ SellMoney(u) \/ SellPay(u)

Request(u) ==
    \/ \E d \in DocId : BuyFind(u, d) \/ handle_dispose(u, d)
    \/ \E n \in NpcId, ids \in SUBSET DocId : SellFind(u, n, ids)

Spawner ==
    \/ SpawnWrite \/ SpawnAdd \/ RemoveFile

Traffic ==
    \/ \E T \in TagMask, p \in Price : SpawnChoose(T, p)
    \/ \E A \in SUBSET MarketIndex : AgeMarket(A)
    \/ \E A \in SUBSET NpcIndex : AgeNpcs(A)
    \/ \E T \in TagMask, b \in Bounty : NpcSpawn(T, b)

World == Traffic \/ \E t \in Tag : Leak(t) \/ Recover(t)

TradeNext ==
    \/ \E u \in User : Request(u) \/ Handler(u)
    \/ Spawner \/ World
    \/ (\E u \in User : RaidBurn(u)) \/ RaidPurge

TradeSpec == TradeInit /\ [][TradeNext]_tvars

\* A thread between two calls is scheduled: no lock is held across a step here.
FairTradeSpec ==
    /\ TradeSpec
    /\ \A u \in User : WF_tvars(Handler(u))
    /\ WF_tvars(Spawner)
    /\ WF_tvars(RaidPurge)

-----------------------------------------------------------------------------
\* Types of what a handler thread keeps between two calls.

OfferShown == [doc_id : DocId, tags : SUBSET Tag, base_price : Price]

HandlerState ==
    [pc : {"ready", "gone", "bust_money", "bust_count", "bust_burn"}]
    \cup [pc : {"buy_count", "buy_money"}, doc_id : DocId, base_price : Price]
    \cup [pc : {"buy_take"}, doc_id : DocId, money : Int]
    \cup [pc : {"buy_move", "buy_undo", "buy_pay"}, slot : OfferShown, money : Int]
    \cup [pc : {"sell_check"}, npc_id : NpcId, ids : SUBSET DocId, todo : SUBSET DocId,
          required_tags : SUBSET Tag, tag_union : SUBSET Tag]
    \cup [pc : {"sell_dispose"}, todo : SUBSET DocId, bounty : Bounty]
    \cup [pc : {"sell_pay"}, money : Int]

EventState ==
    [pc : {"idle"}]
    \cup [pc : {"spawn_write", "spawn_add"}, doc_id : DocId, tags : SUBSET Tag,
          base_price : Price]
    \cup [pc : {"remove"}, ids : SUBSET DocId]

\* Type invariant of the board, the files, the records and the threads.
TradeTypeOK ==
    /\ TypeOK
    /\ users_dat \in [User -> Int]
    /\ master \in Table(DocId, SUBSET Tag)
    /\ sandbox \in [User -> Table(DocId, SUBSET Tag)]
    /\ th \in [User -> HandlerState]
    /\ ev \in EventState
    /\ raid \in [pc : {"idle"}] \cup [pc : {"purge"}, key : User]
    /\ {g_doc_id_counter, g_npc_id_counter, faults} \subseteq Nat
    /\ lost \subseteq DocId

-----------------------------------------------------------------------------
\* Who has a document.

OnBoard == {g_market[i].doc_id : i \in DOMAIN g_market}

\* A buyer has taken it off the board and not moved its file yet.
InPassage(u, d) == th[u].pc \in {"buy_move", "buy_undo"} /\ th[u].slot.doc_id = d

\* The event thread is about to list it, or to remove its file.
WithSpawner(d) ==
    \/ ev.pc \in {"spawn_write", "spawn_add"} /\ ev.doc_id = d
    \/ ev.pc = "remove" /\ d \in ev.ids

Custodians(d) ==
    {<<"slot", i>> : i \in SlotsOf(d)}
    \cup {<<"passage", u>> : u \in {v \in User : InPassage(v, d)}}
    \cup {<<"sandbox", u>> : u \in {v \in User : sandbox_has(v, d)}}
    \cup {<<"spawner", 0>> : x \in {y \in {0} : WithSpawner(d)}}

\* First come, first served: however purchases, failed moves, spawns and aging
\* interleave, a document is in one place: one slot, one buyer's passage, one
\* sandbox or the spawner's hands (market_take is the only way off the board).
OneCustodian == \A d \in DocId : Cardinality(Custodians(d)) <= 1

\* Every offer on the board can be delivered: its file is in data/master, with
\* the tags shown, until the slot is taken.
OfferBacked ==
    \A i \in DOMAIN g_market :
        /\ g_market[i].doc_id \in DOMAIN master
        /\ master[g_market[i].doc_id] = g_market[i].tags

\* The files of data/master that are not on offer and that no thread is going to
\* move or to remove.
Forgotten ==
    {d \in DOMAIN master :
        d \notin OnBoard /\ ~ WithSpawner(d) /\ \A u \in User : ~ InPassage(u, d)}

\* However spawning, aging, purchases and their rollbacks interleave on a board
\* that may fill up at any moment, a file is forgotten in data/master in one case
\* only: its rename failed and the rollback found the board full (handle_buy does
\* not look at the result of market_add).
OnlyLostForgotten == Forgotten \subseteq lost

\* First come, first served (README.md: "선착순 독점"): a doc_id bought by one
\* player is not in another's hands as well.
OneOwner ==
    \A u, v \in User : DOMAIN sandbox[u] \cap DOMAIN sandbox[v] # {} => u = v

\* When a raid is over and a burned player's handler is between two requests, the
\* player has no document: neither a purchase nor a sale that was under way leaves
\* one in the sandbox of an account that is marked as burned.
BurnedHoldNothing ==
    \A u \in User :
        (users_dat[u] = BURNED /\ At(u, "ready") /\ raid.pc = "idle") =>
            DOMAIN sandbox[u] = {}

\* An account that was burned stays burned, whatever its handler was doing.
BurnedForever ==
    [][\A u \in User : users_dat[u] = BURNED => users_dat'[u] = BURNED]_tvars

\* A file that is off the board while it is still in data/master is moved,
\* removed or listed in the end: no thread leaves it there.
FilesSettle ==
    \A d \in DocId :
        (d \in DOMAIN master /\ d \notin OnBoard) ~> (d \notin DOMAIN master \/ d \in OnBoard)

=============================================================================
